---- MODULE Spec2Model ----
(***************************************************************************)
(* Model of the download orchestration engine of yt_pilot:                 *)
(* PlaylistDownloader.download_playlist with its thread pool and per-item  *)
(* pipeline (downloader.py), the resumable Manifest (manifest.py), the     *)
(* filter/range engine (filtering.py) and the naming engine (naming.py).   *)
(*                                                                         *)
(* Text is a sequence of one-character strings.  Python's None is the      *)
(* sentinel None below.  A video id is the natural number i standing for   *)
(* the opaque id string of the i-th playlist entry.                        *)
(***************************************************************************)
EXTENDS Integers, Sequences, FiniteSets, TLC

VARIABLES
    pc,               \* position of the thread running download_playlist / the Manifest client
    max_concurrency,  \* config.max_concurrency
    naming_template,  \* config.naming_template
    numEntries,       \* len(playlist_info["entries"])
    resume,           \* download_playlist(resume=...)
    force,            \* download_playlist(force=...)
    index_range,      \* download_playlist(index_range=...)
    disk,             \* the manifest file in the output directory
    files,            \* names of the media files present in the output directory
    manifest,         \* Manifest.data of the session's manifest object
    skip_ids,         \* local skip_ids of download_playlist
    items,            \* local items: planned VideoItem ids, in playlist order
    video,            \* the VideoItem objects, by id
    futures,          \* local futures: ids submitted and not yet collected
    nsub,             \* number of items the submit loop has submitted
    results,          \* local results
    wpc,              \* per item: position of its pool task (_process_video_enriched)
    vr,               \* per item: local vr of _process_video_enriched
    tmp,              \* per item: value read by the running `counts[k] += 1`
    counts,           \* session.counts
    ended,            \* session.ended is set
    audio_only,       \* session.audio_only (effective_audio)
    last_fmt,         \* self._last_selected_format (id of the item that stashed it)
    hist,             \* history: per item, calls of update_video / completed increments of total
    nops,             \* number of calls made by the Manifest client of SpecManifest
    call              \* a call of one function on its own: its arguments, then its outcome

vars == <<pc, max_concurrency, naming_template, numEntries, resume, force, index_range, disk,
          files, manifest, skip_ids, items, video, futures, nsub, results, wpc,
          vr, tmp, counts, ended, audio_only, last_fmt, hist, nops, call>>

cfgVars == <<max_concurrency, naming_template, numEntries, resume, force, index_range,
            audio_only>>

----------------------------------------------------------------------------
(* Bounds of the model *)

MaxItems == 3        \* largest playlist
MaxConc == 2         \* largest max_concurrency
MaxOps == 3          \* longest sequence of Manifest calls in SpecManifest

None == "<None>"
NoCall == [fn |-> "none"]

----------------------------------------------------------------------------
(* Text helpers *)

RECURSIVE Digits(_)
Digits(n) ==
    LET d == <<"0", "1", "2", "3", "4", "5", "6", "7", "8", "9">>
    IN  IF n < 10 THEN <<d[n + 1]>> ELSE Digits(n \div 10) \o <<d[(n % 10) + 1]>>

RECURSIVE ZeroPad(_, _)
ZeroPad(s, width) == IF Len(s) >= width THEN s ELSE ZeroPad(<<"0">> \o s, width)

Whitespace == {" ", "\t", "\n"}

\* s.lstrip(cs), s.rstrip(cs)
LStrip(s, cs) ==
    LET keep == {k \in 1..Len(s) : s[k] \notin cs}
    IN  IF keep = {} THEN <<>>
        ELSE SubSeq(s, CHOOSE k \in keep : \A j \in keep : k <= j, Len(s))

RStrip(s, cs) ==
    LET keep == {k \in 1..Len(s) : s[k] \notin cs}
    IN  IF keep = {} THEN <<>>
        ELSE SubSeq(s, 1, CHOOSE k \in keep : \A j \in keep : k >= j)

Strip(s, cs) == RStrip(LStrip(s, cs), cs)

EndsWith(s, suf) ==
    Len(s) >= Len(suf) /\ SubSeq(s, Len(s) - Len(suf) + 1, Len(s)) = suf

\* str.replace(old, ""): every non-overlapping occurrence of old is deleted
RECURSIVE Remove(_, _)
Remove(s, old) ==
    IF old = <<>> \/ Len(s) < Len(old) THEN s
    ELSE IF SubSeq(s, 1, Len(old)) = old
         THEN Remove(SubSeq(s, Len(old) + 1, Len(s)), old)
         ELSE <<Head(s)>> \o Remove(Tail(s), old)

----------------------------------------------------------------------------
(* naming.py *)

SAFE_SUB == "_"
INVALID_CHARS == {"\\", "/", ":", "*", "?", "\"", "<", ">", "|"}
MaxNameLen == 255

TIndex == <<"i", "n", "d", "e", "x">>
TTitle == <<"t", "i", "t", "l", "e">>
TQuality == <<"q", "u", "a", "l", "i", "t", "y">>
TVideoId == <<"v", "i", "d", "e", "o", "_", "i", "d">>
TDate == <<"d", "a", "t", "e">>
TAudioOnly == <<"a", "u", "d", "i", "o", "_", "o", "n", "l", "y">>
ALLOWED_TOKENS == {TIndex, TTitle, TQuality, TVideoId, TDate, TAudioOnly}

\* INVALID_CHARS.sub(SAFE_SUB, name): each maximal run becomes one SAFE_SUB
SubInvalid(s) ==
    LET one == [k \in 1..Len(s) |->
                   IF s[k] \notin INVALID_CHARS THEN s[k]
                   ELSE IF k > 1 /\ s[k - 1] \in INVALID_CHARS THEN "" ELSE SAFE_SUB]
    IN  SelectSeq(one, LAMBDA c : c # "")

sanitize_filename(name0) ==
    LET n1 == SubInvalid(name0)
        n2 == Strip(n1, Whitespace)
        n3 == IF EndsWith(n2, <<".", " ">>)
              THEN SubSeq(n2, 1, Len(n2) - 2) \o <<".">> ELSE n2
        n4 == IF Strip(n3, {"."}) = <<>>
              THEN <<"u", "n", "t", "i", "t", "l", "e", "d">> ELSE n3
    IN  SubSeq(n4, 1, IF Len(n4) < MaxNameLen THEN Len(n4) ELSE MaxNameLen)

\* A template is a sequence of parts: literal text, or a replacement field
\* {name:spec} (spec empty when there is no colon).
Lit(t) == [kind |-> "lit", text |-> t, name |-> <<>>, spec |-> <<>>]
Field(n, s) == [kind |-> "field", text |-> <<>>, name |-> n, spec |-> s]

PartText(p) ==
    IF p.kind = "lit" THEN p.text
    ELSE <<"{">> \o p.name \o (IF p.spec = <<>> THEN <<>> ELSE <<":">> \o p.spec) \o <<"}">>

RECURSIVE TemplateText(_)
TemplateText(t) == IF t = <<>> THEN <<>> ELSE PartText(Head(t)) \o TemplateText(Tail(t))

QualityText(q) ==
    CASE q = "1080p" -> <<"1", "0", "8", "0", "p">>
      [] q = "720p" -> <<"7", "2", "0", "p">>
      [] q = "480p" -> <<"4", "8", "0", "p">>
      [] q = "360p" -> <<"3", "6", "0", "p">>
      [] q = "240p" -> <<"2", "4", "0", "p">>
      [] q = "144p" -> <<"1", "4", "4", "p">>
      [] q = "audio" -> <<"a", "u", "d", "i", "o">>
      [] OTHER -> <<"2", "1", "6", "0", "p">>

IdText(i) == <<"v">> \o Digits(i)
Today == <<"2", "0", "2", "6", "-", "0", "1", "-", "0", "1">>

\* format of one replacement field: [err |-> "" | "KeyError" | "IndexError" | "ValueError", out]
FormatField(p, v) ==
    LET isInt == p.name = TIndex
        val == CASE p.name = TIndex -> Digits(v.index)
                 [] p.name = TTitle -> v.title
                 [] p.name = TQuality ->
                        QualityText(IF v.selected_quality # None THEN v.selected_quality
                                    ELSE v.preferred_quality)
                 [] p.name = TVideoId -> IdText(v.video_id)
                 [] p.name = TDate -> Today
                 [] OTHER -> IF v.audio_only THEN <<"t", "r", "u", "e">>
                             ELSE <<"f", "a", "l", "s", "e">>
    IN  IF p.name = <<>> THEN [err |-> "IndexError", out |-> <<>>]
        ELSE IF p.name \notin ALLOWED_TOKENS THEN [err |-> "KeyError", out |-> p.name]
        ELSE IF p.spec = <<>> THEN [err |-> "", out |-> val]
        ELSE IF p.spec = <<"0", "3", "d">>
             THEN IF isInt THEN [err |-> "", out |-> ZeroPad(val, 3)]
                  ELSE [err |-> "ValueError", out |-> <<>>]
        ELSE [err |-> "ValueError", out |-> <<>>]

\* template.format(**mapping), left to right, stopping at the first error
RECURSIVE StrFormat(_, _)
StrFormat(t, v) ==
    IF t = <<>> THEN [err |-> "", out |-> <<>>]
    ELSE LET h == IF Head(t).kind = "lit" THEN [err |-> "", out |-> Head(t).text]
                  ELSE FormatField(Head(t), v)
         IN  IF h.err # "" THEN h
             ELSE LET r == StrFormat(Tail(t), v)
                  IN  IF r.err # "" THEN r ELSE [err |-> "", out |-> h.out \o r.out]

\* [raised |-> BOOLEAN, name |-> text]
expand_template(template, v) ==
    LET f == StrFormat(template, v)
    IN  IF f.err = "" THEN [raised |-> FALSE, name |-> sanitize_filename(f.out)]
        ELSE IF f.err = "KeyError"
             THEN [raised |-> FALSE,
                   name |-> sanitize_filename(
                       Remove(TemplateText(template), <<"{">> \o f.out \o <<"}">>))]
        ELSE [raised |-> TRUE, name |-> <<>>]

----------------------------------------------------------------------------
(* JSON documents (json.dumps / json.loads) *)

\* An optional text is a text or NoneText; an optional string is a string or None.
NoneText == <<None>>

JNull == [t |-> "null", s |-> "", x |-> <<>>, n |-> 0, m |-> <<>>]
JBool(b) == [t |-> IF b THEN "true" ELSE "false", s |-> "", x |-> <<>>, n |-> 0, m |-> <<>>]
JNum(k) == [t |-> "num", s |-> "", x |-> <<>>, n |-> k, m |-> <<>>]
JStr(str) == [t |-> "str", s |-> str, x |-> <<>>, n |-> 0, m |-> <<>>]
JText(txt) == [t |-> "str", s |-> "", x |-> txt, n |-> 0, m |-> <<>>]
JObject(members) == [t |-> "object", s |-> "", x |-> <<>>, n |-> 0, m |-> members]
JArray(elems) == [t |-> "array", s |-> "", x |-> <<>>, n |-> 0, m |-> elems]
Member(key, val) == [k |-> key, v |-> val]

\* the keys of a dict in the order json.dumps writes them (ids: increasing)
RECURSIVE KeySeq(_)
KeySeq(S) ==
    IF S = {} THEN <<>>
    ELSE LET lo == CHOOSE a \in S : \A b \in S : a <= b
         IN  <<lo>> \o KeySeq(S \ {lo})

\* dict.get(key) on a parsed JSON object: the last member with that key, or null
RECURSIVE JGet(_, _)
JGet(members, key) ==
    IF members = <<>> THEN JNull
    ELSE IF members[Len(members)].k = key THEN members[Len(members)].v
         ELSE JGet(SubSeq(members, 1, Len(members) - 1), key)

RECURSIVE JHas(_, _)
JHas(members, key) ==
    members # <<>> /\ (Head(members).k = key \/ JHas(Tail(members), key))

DumpOptStr(v) == IF v = None THEN JNull ELSE JStr(v)
DumpOptText(v) == IF v = NoneText THEN JNull ELSE JText(v)
LoadOptStr(j) == IF j.t = "str" THEN j.s ELSE None
LoadOptText(j) == IF j.t = "str" THEN j.x ELSE NoneText

\* mutant: the filename is not written
DumpEntry_nofilename(e) ==
    JObject(<<Member("status", JStr(e.status)),
              Member("quality", DumpOptStr(e.quality)),
              Member("fallback", JBool(e.fallback)),
              Member("retries", JNum(e.retries))>>)
\* one manifest entry as written by json.dumps
DumpEntry(e) ==
    JObject(<<Member("status", JStr(e.status)),
              Member("quality", DumpOptStr(e.quality)),
              Member("fallback", JBool(e.fallback)),
              Member("retries", JNum(e.retries)),
              Member("filename", DumpOptText(e.filename))>>)

\* one manifest entry as read back by json.loads (absent key: None, as meta.get)
LoadEntry(j) ==
    [status |-> LoadOptStr(JGet(j.m, "status")),
     quality |-> LoadOptStr(JGet(j.m, "quality")),
     fallback |-> JGet(j.m, "fallback").t = "true",
     retries |-> JGet(j.m, "retries").n,
     filename |-> LoadOptText(JGet(j.m, "filename"))]

RECURSIVE DumpVideos(_, _)
DumpVideos(videos, keys) ==
    IF keys = <<>> THEN <<>>
    ELSE <<Member(Head(keys), DumpEntry(videos[Head(keys)]))>> \o DumpVideos(videos, Tail(keys))

RECURSIVE LoadVideos(_)
LoadVideos(members) ==
    IF members = <<>> THEN <<>>
    ELSE LET rest == LoadVideos(SubSeq(members, 1, Len(members) - 1))
             last == members[Len(members)]
         IN  [i \in DOMAIN rest \cup {last.k} |->
                 IF i = last.k THEN LoadEntry(last.v) ELSE rest[i]]

(* Manifest.data.  top: "dict" when the data is a dict, "other" otherwise    *)
(* (a list, a number...).  vkind says whether data["videos"] is a dict, is  *)
(* None or is missing; videos is that dict (the empty map when it is not    *)
(* one).                                                                   *)
EmptyData == [top |-> "dict", playlist_url |-> None, vkind |-> "dict", videos |-> <<>>]

json_dumps(data) ==
    IF data.top # "dict" THEN JArray(<<>>)
    ELSE JObject(<<Member("playlist_url", DumpOptStr(data.playlist_url))>> \o
                 (CASE data.vkind = "dict" ->
                          <<Member("videos",
                                   JObject(DumpVideos(data.videos, KeySeq(DOMAIN data.videos))))>>
                    [] data.vkind = "null" -> <<Member("videos", JNull)>>
                    [] OTHER -> <<>>))

json_loads(doc) ==
    IF doc.t # "object"
    THEN [top |-> "other", playlist_url |-> None, vkind |-> "missing", videos |-> <<>>]
    ELSE LET v == JGet(doc.m, "videos")
         IN  [top |-> "dict",
              playlist_url |-> LoadOptStr(JGet(doc.m, "playlist_url")),
              vkind |-> IF ~JHas(doc.m, "videos") THEN "missing"
                        ELSE IF v.t = "object" THEN "dict" ELSE "null",
              videos |-> IF v.t = "object" THEN LoadVideos(v.m) ELSE <<>>]

----------------------------------------------------------------------------
(* manifest.py.  The file is [kind |-> "absent" | "garbage" | "json", doc]. *)

NoFile == [kind |-> "absent", doc |-> JNull]
Garbage == [kind |-> "garbage", doc |-> JNull]
\* the file while write_text is at work: emptied by open(), then holding a
\* proper prefix of the text (which never is a JSON document)
Truncated == [kind |-> "truncated", doc |-> JNull]
JsonFile(doc) == [kind |-> "json", doc |-> doc]

\* mutant: no except clause around json.loads, what it yields is kept
Manifest_load_noexcept(file) ==
    IF file.kind = "absent" THEN EmptyData ELSE json_loads(JArray(<<>>))
\* Manifest.load: the data of the returned manifest
Manifest_load(file) ==
    IF file.kind = "absent" THEN EmptyData
    ELSE IF file.kind # "json" THEN EmptyData        \* json.loads raised: reset
    ELSE json_loads(file.doc)

\* Manifest.set_playlist: [raised, data]
set_playlist(data, url) ==
    IF data.top # "dict" THEN [raised |-> TRUE, data |-> data]
    ELSE [raised |-> FALSE, data |-> [data EXCEPT !.playlist_url = url]]

ManifestEntryOf(v) ==
    [status |-> v.status, quality |-> v.selected_quality, fallback |-> v.fallback_applied,
     retries |-> v.retries, filename |-> v.filename]

\* mutant: the videos map is replaced by a map holding the new entry alone
update_video_fresh(data, v) ==
    IF data.top # "dict" THEN data ELSE
    [data EXCEPT !.vkind = "dict",
                 !.videos = [i \in {v.video_id} |->
                                [status |-> v.status, quality |-> v.selected_quality,
                                 fallback |-> v.fallback_applied, retries |-> v.retries,
                                 filename |-> v.filename]]]
\* Manifest.update_video: the data after the call (a data that is no dict
\* makes the call raise TypeError and stays as it is)
update_video(data, v) ==
    LET vids == IF data.vkind = "dict" THEN data.videos ELSE <<>>
    IN  IF data.top # "dict" THEN data ELSE
        [data EXCEPT !.vkind = "dict",
                     !.videos = [i \in DOMAIN vids \cup {v.video_id} |->
                                    IF i = v.video_id THEN ManifestEntryOf(v) ELSE vids[i]]]

\* Manifest.save: the file after the call
Manifest_save(data) == JsonFile(json_dumps(data))

\* mutant: the file is not looked for
compute_skips_nofile(data, present) ==
    IF data.vkind = "null" THEN [raised |-> TRUE, skips |-> {}]
    ELSE [raised |-> FALSE,
          skips |-> {i \in DOMAIN data.videos : data.videos[i].status = "success"}]
\* Manifest.compute_skips: [raised, skips]
compute_skips(data, present) ==
    IF data.vkind = "null" THEN [raised |-> TRUE, skips |-> {}]
    ELSE [raised |-> FALSE,
          skips |-> {i \in DOMAIN data.videos :
                        /\ data.videos[i].status = "success"
                        /\ data.videos[i].filename # NoneText
                        /\ data.videos[i].filename # <<>>
                        /\ data.videos[i].filename \in present}]

----------------------------------------------------------------------------
(* filtering.py *)

\* One side of "start:end": empty, an integer literal, or text int() rejects.
SideEmpty == [kind |-> "empty", n |-> 0]
SideInt(k) == [kind |-> "int", n |-> k]
SideBad == [kind |-> "bad", n |-> 0]
\* A range spec: None/"" (given = FALSE), or text with or without a colon.
NoRange == [given |-> FALSE, colon |-> FALSE, start |-> SideEmpty, end |-> SideEmpty]
RangeSpec(a, b) == [given |-> TRUE, colon |-> TRUE, start |-> a, end |-> b]
NoColon == [given |-> TRUE, colon |-> FALSE, start |-> SideBad, end |-> SideEmpty]

\* mutant: the end-before-start test of line 19 is missing
parse_index_range_unchecked(spec) ==
    LET ok(hs, a, he, b) ==
            [raised |-> FALSE, exc |-> "", has_start |-> hs, start |-> a, has_end |-> he,
             end |-> b]
        err(cls) ==
            [raised |-> TRUE, exc |-> cls, has_start |-> FALSE, start |-> 0, has_end |-> FALSE,
             end |-> 0]
    IN  IF ~spec.given THEN ok(FALSE, 0, FALSE, 0)
        ELSE IF ~spec.colon THEN err("IndexRangeError")
        ELSE IF spec.start.kind = "bad" \/ spec.end.kind = "bad" THEN err("ValueError")
        ELSE ok(spec.start.kind = "int", spec.start.n, spec.end.kind = "int", spec.end.n)

\* parse_index_range: [raised, exc (class of the exception), has_start, start, has_end, end]
parse_index_range(spec) ==
    LET ok(hs, a, he, b) ==
            [raised |-> FALSE, exc |-> "", has_start |-> hs, start |-> a, has_end |-> he,
             end |-> b]
        err(cls) ==
            [raised |-> TRUE, exc |-> cls, has_start |-> FALSE, start |-> 0, has_end |-> FALSE,
             end |-> 0]
    IN  IF ~spec.given THEN ok(FALSE, 0, FALSE, 0)
        ELSE IF ~spec.colon THEN err("IndexRangeError")
        ELSE IF spec.start.kind = "bad" \/ spec.end.kind = "bad" THEN err("ValueError")
        ELSE IF spec.start.kind = "int" /\ spec.end.kind = "int" /\ spec.end.n < spec.start.n
             THEN err("IndexRangeError")
        ELSE ok(spec.start.kind = "int", spec.start.n, spec.end.kind = "int", spec.end.n)

Lower(c) ==
    CASE c = "A" -> "a" [] c = "B" -> "b" [] c = "T" -> "t" [] c = "V" -> "v" [] OTHER -> c

LowerText(s) == [k \in 1..Len(s) |-> Lower(s[k])]

\* t in s
Contains(s, t) ==
    \E k \in 0..(Len(s) - Len(t)) : SubSeq(s, k + 1, k + Len(t)) = t

RECURSIVE SelectSeq2(_, _)
SelectSeq2(s, keep) ==
    IF s = <<>> THEN <<>>
    ELSE (IF Head(s) \in keep THEN <<Head(s)>> ELSE <<>>) \o SelectSeq2(Tail(s), keep)

\* mutant: the end of the range is exclusive (v.index >= end dropped)
apply_filters_exclusive_end(vids, vs, filters, range_spec) ==
    LET terms == {LowerText(filters[k]) : k \in {j \in 1..Len(filters) :
                                                   Strip(filters[j], Whitespace) # <<>>}}
        r == parse_index_range(range_spec)
        keep == {i \in {vids[k] : k \in 1..Len(vids)} :
                    /\ ~(r.has_start /\ vs[i].index < r.start)
                    /\ ~(r.has_end /\ vs[i].index >= r.end)
                    /\ (terms # {} => \E t \in terms : Contains(LowerText(vs[i].title), t))}
    IN  IF r.raised THEN [raised |-> TRUE, exc |-> r.exc, out |-> <<>>]
        ELSE [raised |-> FALSE, exc |-> "", out |-> SelectSeq2(vids, keep)]

\* mutant: the terms are not lowered (f.lower() of line 27 dropped)
apply_filters_case_sensitive(vids, vs, filters, range_spec) ==
    LET terms == {filters[k] : k \in {j \in 1..Len(filters) :
                                        Strip(filters[j], Whitespace) # <<>>}}
        r == parse_index_range(range_spec)
        keep == {i \in {vids[k] : k \in 1..Len(vids)} :
                    /\ ~(r.has_start /\ vs[i].index < r.start)
                    /\ ~(r.has_end /\ vs[i].index > r.end)
                    /\ (terms # {} => \E t \in terms : Contains(LowerText(vs[i].title), t))}
    IN  IF r.raised THEN [raised |-> TRUE, exc |-> r.exc, out |-> <<>>]
        ELSE [raised |-> FALSE, exc |-> "", out |-> SelectSeq2(vids, keep)]

\* apply_filters over the ids in vids (vs maps an id to its VideoItem):
\* [raised, exc, out]
apply_filters(vids, vs, filters, range_spec) ==
    LET terms == {LowerText(filters[k]) : k \in {j \in 1..Len(filters) :
                                                   Strip(filters[j], Whitespace) # <<>>}}
        r == parse_index_range(range_spec)
        keep == {i \in {vids[k] : k \in 1..Len(vids)} :
                    /\ ~(r.has_start /\ vs[i].index < r.start)
                    /\ ~(r.has_end /\ vs[i].index > r.end)
                    /\ (terms # {} => \E t \in terms : Contains(LowerText(vs[i].title), t))}
    IN  IF r.raised THEN [raised |-> TRUE, exc |-> r.exc, out |-> <<>>]
        ELSE [raised |-> FALSE, exc |-> "", out |-> SelectSeq2(vids, keep)]

----------------------------------------------------------------------------
(* downloader.py: _process_video *)

DEFAULT_QUALITY_ORDER == <<"1080p", "720p", "480p", "360p", "240p", "144p">>
quality_order == DEFAULT_QUALITY_ORDER
preferred == quality_order[1]
MaxAttempts == 3

_quality_to_height(q) ==
    CASE q = "144p" -> 144 [] q = "240p" -> 240 [] q = "360p" -> 360 [] q = "480p" -> 480
      [] q = "720p" -> 720 [] q = "1080p" -> 1080 [] q = "1440p" -> 1440
      [] q = "2160p" -> 2160 [] OTHER -> 720

_format_to_quality(fmt, audio) ==
    IF audio THEN "audio"
    ELSE IF fmt.height >= 2160 THEN "2160p"
    ELSE IF fmt.height >= 1440 THEN "1440p"
    ELSE IF fmt.height >= 1080 THEN "1080p"
    ELSE IF fmt.height >= 720 THEN "720p"
    ELSE IF fmt.height >= 480 THEN "480p"
    ELSE IF fmt.height >= 360 THEN "360p"
    ELSE IF fmt.height >= 240 THEN "240p"
    ELSE "144p"

\* A format descriptor; height 0 stands for no height, vcodec/acodec say
\* whether the stream has video/audio, filesize 0 for no size.
Fmt(h, v, a, tbr, abr, size) ==
    [height |-> h, vcodec |-> v, acodec |-> a, tbr |-> tbr, abr |-> abr, filesize |-> size]
NoFormat == Fmt(0, FALSE, FALSE, 0, 0, 0)

ByHeightTbr(f, g) == f.height > g.height \/ (f.height = g.height /\ f.tbr > g.tbr)
ByAbr(f, g) == f.abr > g.abr

\* list.sort(key=(height, tbr), reverse=True)[0]: the first element carrying the largest key
FirstByHeightTbr(fs) ==
    LET k == CHOOSE k \in 1..Len(fs) :
                 /\ \A j \in 1..Len(fs) : ~ByHeightTbr(fs[j], fs[k])
                 /\ \A j \in 1..(k - 1) : ByHeightTbr(fs[k], fs[j])
    IN  fs[k]

\* list.sort(key=abr, reverse=True)[0]
FirstByAbr(fs) ==
    LET k == CHOOSE k \in 1..Len(fs) :
                 /\ \A j \in 1..Len(fs) : ~ByAbr(fs[j], fs[k])
                 /\ \A j \in 1..(k - 1) : ByAbr(fs[k], fs[j])
    IN  fs[k]

\* the in-process selection of lines 311-341; NoFormat when nothing suits
select_format(formats, audio, pref) ==
    LET target_height == _quality_to_height(pref)
        afmts == SelectSeq(formats, LAMBDA f : f.acodec /\ ~f.vcodec)
        candidates == SelectSeq(formats, LAMBDA f :
                          f.height > 0 /\ f.height <= target_height /\ f.vcodec /\ f.acodec)
        combined == SelectSeq(formats, LAMBDA f : f.vcodec /\ f.acodec /\ f.height > 0)
    IN  IF audio
        THEN IF afmts # <<>> THEN FirstByAbr(afmts) ELSE NoFormat
        ELSE IF candidates # <<>> THEN FirstByHeightTbr(candidates)
        ELSE IF combined # <<>> THEN FirstByHeightTbr(combined)
        ELSE NoFormat

\* the fallback status of a downloaded format (lines 408-416)
FallbackApplied(sel, audio, pref) ==
    LET target_height == _quality_to_height(pref)
    IN  ~audio /\ sel.height > 0 /\ sel.height < target_height

\* An error raised by the Media Retrieval Service: class and message.
NoError == [cls |-> "", msg |-> ""]
Err(c, m) == [cls |-> c, msg |-> m]

\* the classification of the two except clauses (lines 426-448)
IsPermanent(e) ==
    IF e.cls = "DownloadError"
    THEN e.msg \in {"400", "403", "404", "410", "private", "deleted"}
    ELSE e.msg \in {"400", "403", "404", "410"}

(* What the service answers to one attempt: extract_info raises `extract`    *)
(* (NoError: it returns), has_info = FALSE when it returns nothing, formats *)
(* is info["formats"], and ydl.download raises `download`.                  *)
Response(ex, hi, fs, dl) == [extract |-> ex, has_info |-> hi, formats |-> fs, download |-> dl]

VideoResult(st, q, reason, fb) ==
    [status |-> st, quality |-> q, failure_reason |-> reason, fallback_applied |-> fb]

ErrText(e) == IF e.cls = "DownloadError" THEN "DownloadError: " \o e.msg
              ELSE "Exception: " \o e.msg

\* One step of a yt-dlp format selector: what to take, and the height limit
\* of its [height<=H] filter (0: no filter).  A selector "a/b/c" is <<a, b, c>>.
Step(what, limit) == [what |-> what, limit |-> limit]
BestAudio == Step("bestaudio", 0)
Best == Step("best", 0)

\* download_opts["format"] (lines 370-389)
format_selector(audio, pref) ==
    LET quality_height == _quality_to_height(pref)
    IN  IF audio THEN <<BestAudio, Best>>
        ELSE <<Step("bestvideo+bestaudio", quality_height), Step("best", quality_height), Best>>

\* ydl.download (lines 402-404): the format yt-dlp retrieves for one step of
\* the selector, NoFormat when the step matches nothing.  bestvideo is the
\* best video-only format, bestaudio the best audio-only one, best the best
\* format with video and audio; [height<=H] keeps the formats of known height
\* up to H; a+b is the merge of both and needs both.
Within(f, limit) == limit = 0 \/ (f.height > 0 /\ f.height <= limit)
ResolveStep(step, formats) ==
    LET vonly == SelectSeq(formats, LAMBDA f : f.vcodec /\ ~f.acodec /\ Within(f, step.limit))
        aonly == SelectSeq(formats, LAMBDA f : f.acodec /\ ~f.vcodec)
        both == SelectSeq(formats, LAMBDA f : f.vcodec /\ f.acodec /\ Within(f, step.limit))
    IN  CASE step.what = "bestaudio" -> IF aonly # <<>> THEN FirstByAbr(aonly) ELSE NoFormat
          [] step.what = "best" -> IF both # <<>> THEN FirstByHeightTbr(both) ELSE NoFormat
          [] OTHER -> IF vonly # <<>> /\ aonly # <<>>
                      THEN [FirstByHeightTbr(vonly) EXCEPT !.acodec = TRUE,
                                                           !.abr = FirstByAbr(aonly).abr]
                      ELSE NoFormat

\* a selector "a/b/c": the first step that matches
RECURSIVE Retrieve(_, _)
Retrieve(selector, formats) ==
    IF selector = <<>> THEN NoFormat
    ELSE IF ResolveStep(Head(selector), formats) # NoFormat
         THEN ResolveStep(Head(selector), formats)
    ELSE Retrieve(Tail(selector), formats)

\* the loop of _process_video from a given attempt count on:
\* [vr, attempts (iterations run), stash (last _last_selected_format written), wrote,
\*  sleeps (the time.sleep calls), handed (the selector of each ydl.download call)]
RECURSIVE ProcessLoop(_, _, _, _, _)
ProcessLoop(script, attempts, last_exc, stash, audio) ==
    LET out(res) == [vr |-> res, attempts |-> attempts + 1, stash |-> stash, wrote |-> FALSE,
                     sleeps |-> <<>>, handed |-> <<>>]
        r == script[attempts + 1]
        sel == select_format(r.formats, audio, preferred)
        onError(e, st, h) ==
            IF IsPermanent(e) \/ attempts + 1 >= MaxAttempts
            THEN [vr |-> VideoResult("failed", None, ErrText(e), FALSE),
                  attempts |-> attempts + 1, stash |-> st, wrote |-> FALSE,
                  sleeps |-> <<>>, handed |-> h]
            ELSE LET rest == ProcessLoop(script, attempts + 1, e, st, audio)
                 IN  [rest EXCEPT !.sleeps = <<1 * (attempts + 1)>> \o @,
                                  !.handed = h \o @]
    IN  IF attempts >= MaxAttempts
        THEN IF last_exc # NoError
             THEN [vr |-> VideoResult("failed", None, ErrText(last_exc), FALSE),
                   attempts |-> attempts, stash |-> stash, wrote |-> FALSE,
                   sleeps |-> <<>>, handed |-> <<>>]
             ELSE [vr |-> VideoResult("none", None, "", FALSE),
                   attempts |-> attempts, stash |-> stash, wrote |-> FALSE,
                   sleeps |-> <<>>, handed |-> <<>>]
        ELSE IF r.extract # NoError THEN onError(r.extract, stash, <<>>)
        ELSE IF ~r.has_info
             THEN out(VideoResult("failed", None, "No video info available", FALSE))
        ELSE IF r.formats = <<>>
             THEN out(VideoResult("failed", None, "No streams available", FALSE))
        ELSE IF sel = NoFormat
             THEN out(VideoResult("failed", None, "No suitable format found", FALSE))
        ELSE IF r.download # NoError THEN onError(r.download, sel, <<format_selector(audio, preferred)>>)
        ELSE [vr |-> VideoResult("success", _format_to_quality(sel, audio), "",
                                 FallbackApplied(sel, audio, preferred)),
              attempts |-> attempts + 1, stash |-> sel, wrote |-> TRUE,
              sleeps |-> <<>>, handed |-> <<format_selector(audio, preferred)>>]

\* mutant: the exception of the last attempt is not kept, the function falls
\* through to `return None`
_process_video_unrecorded(script, audio) ==
    LET r == ProcessLoop(script, 0, NoError, NoFormat, audio)
    IN  IF r.attempts >= MaxAttempts /\ r.vr.status = "failed"
        THEN [r EXCEPT !.vr = VideoResult("none", None, "", FALSE)]
        ELSE r
_process_video(script, audio) == ProcessLoop(script, 0, NoError, NoFormat, audio)

----------------------------------------------------------------------------
(* Inputs of the modelled sessions *)

PlaylistUrl == "https://www.youtube.com/playlist?list=PL"
\* the smallest playlist with an item beyond the first batch of the largest pool
BlockedEntries == 2 * MaxConc + 1
Ids == 1..(IF MaxItems > BlockedEntries THEN MaxItems ELSE BlockedEntries)
EntryTitle(i) == <<"V">> \o Digits(i)

DefaultTemplate == <<Field(TIndex, <<"0", "3", "d">>), Lit(<<"-">>), Field(TTitle, <<>>)>>
\* "{title:03d}": str.format raises ValueError (format code 'd' on a str)
BadSpecTemplate == <<Field(TTitle, <<"0", "3", "d">>)>>
SessionTemplates == {DefaultTemplate, BadSpecTemplate}

F1080 == Fmt(1080, TRUE, TRUE, 2000, 128, 90)
F720 == Fmt(720, TRUE, TRUE, 1000, 128, 50)
FAudio == Fmt(0, FALSE, TRUE, 128, 128, 5)
Ok(fs) == Response(NoError, TRUE, fs, NoError)
Transient == Response(NoError, TRUE, <<F1080, FAudio>>, Err("DownloadError", "timed out"))
NotFound == Response(Err("DownloadError", "404"), FALSE, <<>>, NoError)

\* the scripted answers of the Media Retrieval Service to the attempts on one item
SessionScripts ==
    { <<Ok(<<F720, F1080, FAudio>>), Transient, Transient>>,   \* success at once
      <<Ok(<<F720, FAudio>>), Transient, Transient>>,          \* success, lower quality
      <<NotFound, Transient, Transient>>,                      \* permanent error
      <<Transient, Ok(<<F1080, FAudio>>), Transient>> }        \* transient, then success

SessionRanges ==
    { NoRange, RangeSpec(SideInt(2), SideEmpty), RangeSpec(SideInt(3), SideInt(1)), NoColon }

NewVideoItem(i, audio) ==
    [index |-> i, video_id |-> i, title |-> EntryTitle(i), preferred_quality |-> preferred,
     selected_quality |-> None, audio_only |-> audio, status |-> "pending",
     failure_reason |-> None, fallback_applied |-> FALSE, retries |-> 0,
     size_bytes |-> 0, filename |-> NoneText]

\* a manifest left by an earlier run: item 1 succeeded and its file is there,
\* item 2 succeeded but its file is gone, item 3 failed, item 4 succeeded
\* without a recorded filename
PriorEntry(st, fn) ==
    [status |-> st, quality |-> IF st = "success" THEN "720p" ELSE None,
     fallback |-> st = "success", retries |-> 0, filename |-> fn]
PriorName(i) == expand_template(DefaultTemplate, NewVideoItem(i, FALSE)).name
PriorData ==
    [top |-> "dict", playlist_url |-> PlaylistUrl, vkind |-> "dict",
     videos |-> [i \in 1..4 |-> CASE i = 3 -> PriorEntry("failed", NoneText)
                                  [] i = 4 -> PriorEntry("success", NoneText)
                                  [] OTHER -> PriorEntry("success", PriorName(i))]]
SessionDisks == {NoFile, Garbage, Manifest_save(PriorData)}
SessionFiles == {PriorName(1)}

\* the file yt-dlp writes for outtmpl "%(title)s.%(ext)s"
DownloadName(i, audio) ==
    EntryTitle(i) \o (IF audio THEN <<".", "m", "p", "3">> ELSE <<".", "m", "p", "4">>)

----------------------------------------------------------------------------
(* downloader.py: download_playlist and the pool tasks *)

CountKeys == {"total", "success", "failed", "skipped", "fallbacks"}
Running == {"process", "enrich", "update", "rd_status", "wr_status", "rd_total",
            "wr_total", "rd_fb", "wr_fb"}
Finished == {"done", "raised"}
InFlight == {i \in Ids : wpc[i] \in Running}

batch_size == IF max_concurrency * 2 > 1 THEN max_concurrency * 2 ELSE 1

\* mutant: the pool is sized by the batch, not by max_concurrency
max_workers_batch == batch_size
\* ThreadPoolExecutor(max_workers=self.config.max_concurrency)
max_workers == max_concurrency

Init ==
    /\ pc = "start"
    /\ max_concurrency \in 1..MaxConc
    /\ naming_template \in SessionTemplates
    /\ numEntries \in 0..MaxItems
    /\ resume \in BOOLEAN
    /\ force \in BOOLEAN
    /\ index_range \in SessionRanges
    /\ audio_only \in BOOLEAN
    /\ disk \in SessionDisks
    /\ files = SessionFiles
    /\ manifest = EmptyData
    /\ skip_ids = {}
    /\ items = <<>>
    /\ video = <<>>
    /\ futures = <<>>
    /\ nsub = 0
    /\ results = <<>>
    /\ wpc = [i \in Ids |-> "none"]
    /\ vr = [i \in Ids |-> VideoResult("none", None, "", FALSE)]
    /\ tmp = [i \in Ids |-> 0]
    /\ counts = [k \in CountKeys |-> 0]
    /\ ended = FALSE
    /\ last_fmt = NoFormat
    /\ hist = [i \in Ids |-> [upd |-> 0, inc |-> 0]]
    /\ nops = 0
    /\ call = NoCall

\* mutant: the skip test of line 130 is missing
build_items_noskip(n, skips) == [i \in 1..n |-> i]
\* lines 120-141: the ids of the provisional items, entries in the skip set left out
build_items(n, skips) == SelectSeq2([i \in 1..n |-> i], (1..n) \ skips)

\* lines 98-109: ydl.extract_info(playlist_url) raises, returns nothing, or returns entries
ExtractInfo ==
    /\ pc = "start"
    /\ \E answer \in {"entries", "none", "raise"} :
          pc' = IF answer = "entries" THEN "plan" ELSE "returned"
    /\ UNCHANGED <<cfgVars, call, nops, disk, files, manifest, skip_ids, items, video, futures,
                   nsub, results, wpc, vr, tmp, counts, ended, last_fmt, hist>>

\* lines 111-143: load the manifest, compute the skips, build and filter the items
Plan ==
    /\ pc = "plan"
    /\ LET sp == set_playlist(Manifest_load(disk), PlaylistUrl)
           cs == IF resume /\ ~force THEN compute_skips(sp.data, files)
                 ELSE [raised |-> FALSE, skips |-> {}]
           all == [i \in 1..numEntries |-> NewVideoItem(i, audio_only)]
           flt == apply_filters(build_items(numEntries, cs.skips), all, <<>>, index_range)
       IN  IF sp.raised \/ cs.raised \/ flt.raised
           THEN /\ pc' = "returned"
                /\ manifest' = sp.data
                /\ UNCHANGED <<skip_ids, items, video>>
           ELSE /\ pc' = "submit"
                /\ manifest' = sp.data
                /\ skip_ids' = cs.skips
                /\ items' = flt.out
                /\ video' = [i \in {flt.out[k] : k \in 1..Len(flt.out)} |-> all[i]]
    /\ UNCHANGED <<cfgVars, call, nops, disk, files, futures, nsub, results, wpc, vr, tmp,
                   counts, ended, last_fmt, hist>>

\* mutant: the batch test of line 165 is missing
Submit_nobatch ==
    /\ pc = "submit"
    /\ IF nsub < Len(items)
       THEN /\ futures' = Append(futures, items[nsub + 1])
            /\ wpc' = [wpc EXCEPT ![items[nsub + 1]] = "queued"]
            /\ nsub' = nsub + 1
            /\ pc' = "submit"
       ELSE /\ pc' = "drain"
            /\ UNCHANGED <<futures, wpc, nsub>>
    /\ UNCHANGED <<cfgVars, call, nops, disk, files, manifest, skip_ids, items, video, results,
                   vr, tmp, counts, ended, last_fmt, hist>>
\* lines 151-165: executor.submit for the next item, then the batch test
Submit ==
    /\ pc = "submit"
    /\ IF nsub < Len(items)
       THEN /\ futures' = Append(futures, items[nsub + 1])
            /\ wpc' = [wpc EXCEPT ![items[nsub + 1]] = "queued"]
            /\ nsub' = nsub + 1
            /\ pc' = IF Len(futures) + 1 >= batch_size THEN "collect" ELSE "submit"
       ELSE /\ pc' = "drain"
            /\ UNCHANGED <<futures, wpc, nsub>>
    /\ UNCHANGED <<cfgVars, call, nops, disk, files, manifest, skip_ids, items, video, results,
                   vr, tmp, counts, ended, last_fmt, hist>>

\* mutant: the futures are collected as they complete (as_completed), not in list order
Collect_as_completed ==
    /\ pc \in {"collect", "drain"}
    /\ IF futures = <<>>
       THEN /\ pc' = IF pc = "collect" THEN "submit" ELSE "finalize"
            /\ UNCHANGED <<futures, results>>
       ELSE \E k \in 1..Len(futures) :
               /\ wpc[futures[k]] \in {"done", "raised"}
               /\ IF wpc[futures[k]] = "done"
                  THEN /\ futures' = SubSeq(futures, 1, k - 1)
                                         \o SubSeq(futures, k + 1, Len(futures))
                       /\ results' = Append(results, [id |-> futures[k], vr |-> vr[futures[k]]])
                       /\ pc' = pc
                  ELSE /\ pc' = "unwind"
                       /\ UNCHANGED <<futures, results>>
    /\ UNCHANGED <<cfgVars, call, nops, disk, files, manifest, skip_ids, items, video, nsub, wpc,
                   vr, tmp, counts, ended, last_fmt, hist>>
\* lines 166-175: f.result() of the oldest uncollected future; it re-raises
\* what the task raised, and the loop ends when every future is collected
Collect ==
    /\ pc \in {"collect", "drain"}
    /\ IF futures = <<>>
       THEN /\ pc' = IF pc = "collect" THEN "submit" ELSE "finalize"
            /\ UNCHANGED <<futures, results>>
       ELSE /\ wpc[Head(futures)] \in Finished
            /\ IF wpc[Head(futures)] = "done"
               THEN /\ futures' = Tail(futures)
                    /\ results' = IF vr[Head(futures)].status # "none"
                                  THEN Append(results, [id |-> Head(futures),
                                                        vr |-> vr[Head(futures)]])
                                  ELSE results
                    /\ pc' = pc
               ELSE /\ pc' = "unwind"
                    /\ UNCHANGED <<futures, results>>
    /\ UNCHANGED <<cfgVars, call, nops, disk, files, manifest, skip_ids, items, video, nsub, wpc,
                   vr, tmp, counts, ended, last_fmt, hist>>

\* mutant: the executor does not wait for the submitted tasks (shutdown(wait=False))
Unwind_nowait ==
    /\ pc = "unwind"
    /\ pc' = "returned"
    /\ UNCHANGED <<cfgVars, call, nops, disk, files, manifest, skip_ids, items, video, futures,
                   nsub, results, wpc, vr, tmp, counts, ended, last_fmt, hist>>
\* an exception leaves the `with` block: the executor waits for every submitted
\* task (shutdown(wait=True)), then the except clause of line 186 runs
Unwind ==
    /\ pc = "unwind"
    /\ \A i \in Ids : wpc[i] \in Finished \cup {"none"}
    /\ pc' = "returned"
    /\ UNCHANGED <<cfgVars, call, nops, disk, files, manifest, skip_ids, items, video, futures,
                   nsub, results, wpc, vr, tmp, counts, ended, last_fmt, hist>>

CountOf(st) == Cardinality({k \in 1..Len(results) : results[k].vr.status = st})

\* lines 176-185
Finalize ==
    /\ pc = "finalize"
    /\ ended' = TRUE
    /\ counts' = IF counts["total"] = 0
                 THEN [k \in CountKeys |->
                          CASE k = "total" -> Len(results)
                            [] k = "success" -> CountOf("success")
                            [] k = "failed" -> CountOf("failed")
                            [] k = "skipped" -> 0
                            [] OTHER -> Cardinality({j \in 1..Len(results) :
                                                       results[j].vr.fallback_applied})]
                 ELSE counts
    /\ disk' = Manifest_save(manifest)
    /\ pc' = "returned"
    /\ UNCHANGED <<cfgVars, call, nops, files, manifest, skip_ids, items, video, futures, nsub,
                   results, wpc, vr, tmp, last_fmt, hist>>

\* a pool thread takes the oldest queued task
StartTask(i) ==
    /\ wpc[i] = "queued"
    /\ \A j \in Ids : j < i => wpc[j] # "queued"
    /\ Cardinality(InFlight) < max_workers
    /\ wpc' = [wpc EXCEPT ![i] = "process"]
    /\ UNCHANGED <<cfgVars, call, nops, pc, disk, files, manifest, skip_ids, items, video,
                   futures, nsub, results, vr, tmp, counts, ended, last_fmt, hist>>

\* lines 230-232: the call of _process_video, the service answering by `script`
ProcessScript(i, script) ==
    /\ wpc[i] = "process"
    /\ LET r == _process_video(script, audio_only)
       IN  /\ vr' = [vr EXCEPT ![i] = r.vr]
           /\ last_fmt' = IF r.stash # NoFormat THEN r.stash ELSE last_fmt
           /\ files' = IF r.wrote THEN files \cup {DownloadName(i, audio_only)} ELSE files
    /\ wpc' = [wpc EXCEPT ![i] = "enrich"]
    /\ UNCHANGED <<cfgVars, nops, pc, disk, manifest, skip_ids, items, video, futures,
                   nsub, results, tmp, counts, ended, hist>>

ProcessVideo(i) ==
    /\ \E script \in SessionScripts : ProcessScript(i, script)
    /\ UNCHANGED call

\* lines 233-251: copy the result into the VideoItem, render the filename
Enrich(i) ==
    /\ wpc[i] = "enrich"
    /\ LET v1 == [video[i] EXCEPT !.status = "success",
                                  !.selected_quality = vr[i].quality,
                                  !.fallback_applied = vr[i].fallback_applied,
                                  !.size_bytes = IF last_fmt # NoFormat THEN last_fmt.filesize
                                                 ELSE @]
           et == expand_template(naming_template, v1)
       IN  CASE vr[i].status = "success" ->
                  IF et.raised
                  THEN /\ video' = [video EXCEPT ![i] = v1]
                       /\ wpc' = [wpc EXCEPT ![i] = "raised"]
                  ELSE /\ video' = [video EXCEPT ![i] = [v1 EXCEPT !.filename = et.name]]
                       /\ wpc' = [wpc EXCEPT ![i] = "update"]
             [] vr[i].status = "failed" ->
                  /\ video' = [video EXCEPT ![i].status = "failed",
                                            ![i].failure_reason = vr[i].failure_reason]
                  /\ wpc' = [wpc EXCEPT ![i] = "update"]
             [] OTHER ->
                  /\ wpc' = [wpc EXCEPT ![i] = "update"]
                  /\ UNCHANGED video
    /\ UNCHANGED <<cfgVars, call, nops, pc, disk, files, manifest, skip_ids, items, futures,
                   nsub, results, vr, tmp, counts, ended, last_fmt, hist>>

\* line 252
UpdateManifest(i) ==
    /\ wpc[i] = "update"
    /\ manifest' = update_video(manifest, video[i])
    /\ hist' = [hist EXCEPT ![i].upd = @ + 1]
    /\ wpc' = [wpc EXCEPT ![i] = IF video[i].status \in {"success", "failed", "skipped"}
                                 THEN "rd_status" ELSE "rd_total"]
    /\ UNCHANGED <<cfgVars, call, nops, pc, disk, files, skip_ids, items, video, futures, nsub,
                   results, vr, tmp, counts, ended, last_fmt>>

\* the key of the `sess.counts[key] += 1` the task is executing (lines 256-264)
CountKey(i) ==
    CASE wpc[i] \in {"rd_status", "wr_status"} -> video[i].status
      [] wpc[i] \in {"rd_total", "wr_total"} -> "total"
      [] OTHER -> "fallbacks"

\* `counts[key] += 1`, first half: read the current value
ReadCount(i) ==
    /\ wpc[i] \in {"rd_status", "rd_total", "rd_fb"}
    /\ tmp' = [tmp EXCEPT ![i] = counts[CountKey(i)]]
    /\ wpc' = [wpc EXCEPT ![i] = CASE wpc[i] = "rd_status" -> "wr_status"
                                   [] wpc[i] = "rd_total" -> "wr_total"
                                   [] OTHER -> "wr_fb"]
    /\ UNCHANGED <<cfgVars, call, nops, pc, disk, files, manifest, skip_ids, items, video,
                   futures, nsub, results, vr, counts, ended, last_fmt, hist>>

\* `counts[key] += 1`, second half: store the value read plus one; after the
\* last one the task returns vr
WriteCount(i) ==
    /\ wpc[i] \in {"wr_status", "wr_total", "wr_fb"}
    /\ counts' = [counts EXCEPT ![CountKey(i)] = tmp[i] + 1]
    /\ tmp' = [tmp EXCEPT ![i] = 0]
    /\ hist' = [hist EXCEPT ![i].inc = IF wpc[i] = "wr_total" THEN @ + 1 ELSE @]
    /\ wpc' = [wpc EXCEPT ![i] = CASE wpc[i] = "wr_status" -> "rd_total"
                                   [] wpc[i] = "wr_total" ->
                                        IF video[i].fallback_applied THEN "rd_fb" ELSE "done"
                                   [] OTHER -> "done"]
    /\ UNCHANGED <<cfgVars, call, nops, pc, disk, files, manifest, skip_ids, items, video,
                   futures, nsub, results, vr, ended, last_fmt>>

Next ==
    \/ ExtractInfo
    \/ Plan
    \/ Submit
    \/ Collect
    \/ Unwind
    \/ Finalize
    \/ \E i \in Ids : StartTask(i)
    \/ \E i \in Ids : ProcessVideo(i)
    \/ \E i \in Ids : Enrich(i)
    \/ \E i \in Ids : UpdateManifest(i)
    \/ \E i \in Ids : ReadCount(i)
    \/ \E i \in Ids : WriteCount(i)

Spec == Init /\ [][Next]_vars

----------------------------------------------------------------------------
(* A session in which the service call of one item never returns: the      *)
(* largest pool, a playlist of BlockedEntries entries, no manifest, the    *)
(* default template.  call.item is the blocked item, one of the first      *)
(* batch.  Every thread that can take a step eventually takes one.  The    *)
(* steps after the pool (Finalize, Unwind) are never reached: the blocked  *)
(* item's future is never collected and no task raises.                    *)

InitBlocked ==
    /\ pc = "start"
    /\ max_concurrency = MaxConc
    /\ naming_template = DefaultTemplate
    /\ numEntries = BlockedEntries
    /\ resume = FALSE
    /\ force = FALSE
    /\ index_range = NoRange
    /\ audio_only = FALSE
    /\ disk = NoFile
    /\ files = {}
    /\ manifest = EmptyData
    /\ skip_ids = {}
    /\ items = <<>>
    /\ video = <<>>
    /\ futures = <<>>
    /\ nsub = 0
    /\ results = <<>>
    /\ wpc = [i \in Ids |-> "none"]
    /\ vr = [i \in Ids |-> VideoResult("none", None, "", FALSE)]
    /\ tmp = [i \in Ids |-> 0]
    /\ counts = [k \in CountKeys |-> 0]
    /\ ended = FALSE
    /\ last_fmt = NoFormat
    /\ hist = [i \in Ids |-> [upd |-> 0, inc |-> 0]]
    /\ nops = 0
    /\ \E b \in 1..(BlockedEntries - 1) : call = [fn |-> "blocked", item |-> b]

NextBlocked ==
    \/ ExtractInfo
    \/ Plan
    \/ Submit
    \/ Collect
    \/ \E i \in Ids : StartTask(i)
    \/ \E i \in Ids : i # call.item /\ ProcessVideo(i)
    \/ \E i \in Ids : Enrich(i)
    \/ \E i \in Ids : UpdateManifest(i)
    \/ \E i \in Ids : ReadCount(i)
    \/ \E i \in Ids : WriteCount(i)

MainThread == ExtractInfo \/ Plan \/ Submit \/ Collect

\* Enrich(i) is enabled exactly in the states with wpc[i] = "enrich" and every
\* step of it leaves them: its weak fairness says that a task is not at
\* "enrich" for ever.  LeaveEnrich(i) is enabled in the same states and says
\* the same without rendering the filename.
LeaveEnrich(i) ==
    /\ wpc[i] = "enrich"
    /\ wpc' = [wpc EXCEPT ![i] = "update"]
    /\ UNCHANGED <<cfgVars, call, nops, pc, disk, files, manifest, skip_ids, items, video,
                   futures, nsub, results, vr, tmp, counts, ended, last_fmt, hist>>

\* the steps of the pool thread running the task of item i
PoolTask(i) ==
    \/ StartTask(i)
    \/ i # call.item /\ ProcessVideo(i)
    \/ LeaveEnrich(i)
    \/ UpdateManifest(i)
    \/ ReadCount(i)
    \/ WriteCount(i)

SpecBlocked ==
    InitBlocked /\ [][NextBlocked]_vars /\ WF_vars(MainThread) /\ \A i \in Ids : WF_vars(PoolTask(i))

----------------------------------------------------------------------------
(* Sessions with the attempts of each item counted: call.att[i] is the      *)
(* number of iterations the loop of _process_video ran for item i.  The    *)
(* service answers every call (it returns or raises), and every thread     *)
(* that can take a step eventually takes one: the main thread runs         *)
(* download_playlist, each pool thread runs its task.                      *)

AttemptScripts == SessionScripts \cup {<<Transient, Transient, Transient>>}

InitAttempts ==
    /\ pc = "start"
    /\ max_concurrency \in 1..MaxConc
    /\ naming_template \in SessionTemplates
    /\ numEntries \in 0..MaxItems
    /\ resume = FALSE
    /\ force = FALSE
    /\ index_range = NoRange
    /\ audio_only = FALSE
    /\ disk = NoFile
    /\ files = SessionFiles
    /\ manifest = EmptyData
    /\ skip_ids = {}
    /\ items = <<>>
    /\ video = <<>>
    /\ futures = <<>>
    /\ nsub = 0
    /\ results = <<>>
    /\ wpc = [i \in Ids |-> "none"]
    /\ vr = [i \in Ids |-> VideoResult("none", None, "", FALSE)]
    /\ tmp = [i \in Ids |-> 0]
    /\ counts = [k \in CountKeys |-> 0]
    /\ ended = FALSE
    /\ last_fmt = NoFormat
    /\ hist = [i \in Ids |-> [upd |-> 0, inc |-> 0]]
    /\ nops = 0
    /\ call = [fn |-> "attempts", att |-> [i \in Ids |-> 0]]

ProcessCounted(i) ==
    \E script \in AttemptScripts :
        /\ ProcessScript(i, script)
        /\ call' = [call EXCEPT !.att[i] = _process_video(script, audio_only).attempts]

NextAttempts ==
    \/ ExtractInfo
    \/ Plan
    \/ Submit
    \/ Collect
    \/ Unwind
    \/ Finalize
    \/ \E i \in Ids : StartTask(i)
    \/ \E i \in Ids : ProcessCounted(i)
    \/ \E i \in Ids : Enrich(i)
    \/ \E i \in Ids : UpdateManifest(i)
    \/ \E i \in Ids : ReadCount(i)
    \/ \E i \in Ids : WriteCount(i)

\* the steps of download_playlist itself
SessionThread == MainThread \/ Unwind \/ Finalize

\* the steps of the pool thread running the task of item i
CountedTask(i) ==
    \/ StartTask(i)
    \/ ProcessCounted(i)
    \/ LeaveEnrich(i)
    \/ UpdateManifest(i)
    \/ ReadCount(i)
    \/ WriteCount(i)

SpecAttempts ==
    InitAttempts /\ [][NextAttempts]_vars
        /\ WF_vars(SessionThread) /\ \A i \in Ids : WF_vars(CountedTask(i))

----------------------------------------------------------------------------
(* A client of the Manifest alone: load, then any calls of set_playlist,    *)
(* update_video, save and compute_skips (the calls of tests/unit/          *)
(* test_manifest.py, over more inputs).                                    *)

ManifestIds == 1..2
ManifestNames == {PriorName(1), PriorName(2)}

\* files a Manifest.load may find: none, unparsable, JSON of another shape, a saved manifest
ManifestDisks ==
    { NoFile, Garbage,
      JsonFile(JArray(<<>>)),
      JsonFile(JObject(<<Member("playlist_url", JStr(PlaylistUrl))>>)),
      JsonFile(JObject(<<Member("playlist_url", JNull), Member("videos", JNull)>>)),
      Manifest_save(PriorData) }

\* the items a client passes to update_video
ManifestVideos ==
    { [NewVideoItem(i, FALSE) EXCEPT !.status = st,
                                     !.selected_quality = IF st = "success" THEN "720p"
                                                          ELSE None,
                                     !.fallback_applied = fr[1], !.retries = fr[2],
                                     !.filename = fn] :
        i \in ManifestIds, st \in {"success", "failed", "pending"},
        fr \in {<<FALSE, 0>>, <<TRUE, 1>>}, fn \in {NoneText, <<>>, PriorName(1)} }

MReady == {"m_ready", "m_saved", "m_skipped"}

InitManifest ==
    /\ pc = "m_start"
    /\ max_concurrency = 1
    /\ naming_template = DefaultTemplate
    /\ numEntries = 0
    /\ resume = FALSE
    /\ force = FALSE
    /\ index_range = NoRange
    /\ audio_only = FALSE
    /\ disk \in ManifestDisks
    /\ files \in SUBSET ManifestNames
    /\ manifest = EmptyData
    /\ skip_ids = {}
    /\ items = <<>>
    /\ video = <<>>
    /\ futures = <<>>
    /\ nsub = 0
    /\ results = <<>>
    /\ wpc = [i \in Ids |-> "none"]
    /\ vr = [i \in Ids |-> VideoResult("none", None, "", FALSE)]
    /\ tmp = [i \in Ids |-> 0]
    /\ counts = [k \in CountKeys |-> 0]
    /\ ended = FALSE
    /\ last_fmt = NoFormat
    /\ hist = [i \in Ids |-> [upd |-> 0, inc |-> 0]]
    /\ nops = 0
    /\ call = NoCall

sessionVars == <<cfgVars, call, items, video, futures, nsub, results, wpc, vr, tmp, counts, ended,
                 last_fmt, hist>>

MLoad ==
    /\ pc = "m_start"
    /\ manifest' = Manifest_load(disk)
    /\ pc' = "m_ready"
    /\ UNCHANGED <<sessionVars, disk, files, skip_ids, nops>>

MSetPlaylist ==
    /\ pc \in MReady
    /\ nops < MaxOps
    /\ manifest' = set_playlist(manifest, PlaylistUrl).data
    /\ pc' = "m_ready"
    /\ nops' = nops + 1
    /\ UNCHANGED <<sessionVars, disk, files, skip_ids>>

MUpdate ==
    /\ pc \in MReady
    /\ nops < MaxOps
    /\ \E v \in ManifestVideos : manifest' = update_video(manifest, v)
    /\ pc' = "m_ready"
    /\ nops' = nops + 1
    /\ UNCHANGED <<sessionVars, disk, files, skip_ids>>

MSave ==
    /\ pc \in MReady
    /\ nops < MaxOps
    /\ disk' = Manifest_save(manifest)
    /\ pc' = "m_saved"
    /\ nops' = nops + 1
    /\ UNCHANGED <<sessionVars, files, manifest, skip_ids>>

MComputeSkips ==
    /\ pc \in MReady
    /\ nops < MaxOps
    /\ LET cs == compute_skips(manifest, files)
       IN  IF cs.raised THEN pc' = "m_ready" /\ UNCHANGED skip_ids
           ELSE pc' = "m_skipped" /\ skip_ids' = cs.skips
    /\ nops' = nops + 1
    /\ UNCHANGED <<sessionVars, disk, files, manifest>>

NextManifest ==
    \/ MLoad
    \/ MSetPlaylist
    \/ MUpdate
    \/ MSave
    \/ MComputeSkips

SpecManifest == InitManifest /\ [][NextManifest]_vars

----------------------------------------------------------------------------
(* The Manifest client again, Manifest.save taken in the steps of           *)
(* Path.write_text: open() empties the file, write() puts the text.  The   *)
(* process may be stopped between the two (signal, power loss).            *)

SaveOpen ==
    /\ pc \in MReady
    /\ nops < MaxOps
    /\ call' = [fn |-> "save", before |-> disk, text |-> Manifest_save(manifest)]
    /\ disk' = Truncated
    /\ pc' = "m_writing"
    /\ nops' = nops + 1
    /\ UNCHANGED <<cfgVars, items, video, futures, nsub, results, wpc, vr, tmp, counts, ended,
                   last_fmt, hist, files, manifest, skip_ids>>

SaveWrite ==
    /\ pc = "m_writing"
    /\ disk' = call.text
    /\ pc' = "m_saved"
    /\ UNCHANGED <<sessionVars, files, manifest, skip_ids, nops>>

Interrupt ==
    /\ pc = "m_writing"
    /\ pc' = "m_killed"
    /\ UNCHANGED <<sessionVars, disk, files, manifest, skip_ids, nops>>

NextSave ==
    \/ MLoad
    \/ MSetPlaylist
    \/ MUpdate
    \/ SaveOpen
    \/ SaveWrite
    \/ Interrupt

SpecSave == InitManifest /\ [][NextSave]_vars

----------------------------------------------------------------------------
(* Concurrent calls of Manifest.update_video (line 252 of the pool tasks),  *)
(* one per item of ManifestIds, on the manifest as download_playlist has   *)
(* loaded it, the call taken statement by statement: the test of line 37,  *)
(* the assignment of line 38, the store of lines 39-45.                    *)

InitWriters ==
    /\ pc = "collect"
    /\ max_concurrency = Cardinality(ManifestIds)
    /\ naming_template = DefaultTemplate
    /\ numEntries = Cardinality(ManifestIds)
    /\ resume = FALSE
    /\ force = FALSE
    /\ index_range = NoRange
    /\ audio_only = FALSE
    /\ disk \in {d \in ManifestDisks : ~set_playlist(Manifest_load(d), PlaylistUrl).raised}
    /\ files = {}
    /\ manifest = set_playlist(Manifest_load(disk), PlaylistUrl).data
    /\ skip_ids = {}
    /\ items = [i \in ManifestIds |-> i]
    /\ video \in {f \in [ManifestIds -> ManifestVideos] :
                     \A i \in ManifestIds :
                         f[i].video_id = i /\ f[i].status \in {"success", "failed"}}
    /\ futures = [i \in ManifestIds |-> i]
    /\ nsub = Cardinality(ManifestIds)
    /\ results = <<>>
    /\ wpc = [i \in Ids |-> IF i \in ManifestIds THEN "update" ELSE "none"]
    /\ vr = [i \in Ids |-> VideoResult("none", None, "", FALSE)]
    /\ tmp = [i \in Ids |-> 0]
    /\ counts = [k \in CountKeys |-> 0]
    /\ ended = FALSE
    /\ last_fmt = NoFormat
    /\ hist = [i \in Ids |-> [upd |-> 0, inc |-> 0]]
    /\ nops = 0
    /\ call = [fn |-> "update_video"]

\* line 37: `"videos" not in self.data or self.data["videos"] is None`
TestVideos(i) ==
    /\ wpc[i] = "update"
    /\ wpc' = [wpc EXCEPT ![i] = IF manifest.vkind # "dict" THEN "uv_reset" ELSE "uv_store"]
    /\ UNCHANGED <<cfgVars, call, nops, pc, disk, files, manifest, skip_ids, items, video,
                   futures, nsub, results, vr, tmp, counts, ended, last_fmt, hist>>

\* line 38: self.data["videos"] = {}
ResetVideos(i) ==
    /\ wpc[i] = "uv_reset"
    /\ manifest' = [manifest EXCEPT !.vkind = "dict", !.videos = <<>>]
    /\ wpc' = [wpc EXCEPT ![i] = "uv_store"]
    /\ UNCHANGED <<cfgVars, call, nops, pc, disk, files, skip_ids, items, video, futures, nsub,
                   results, vr, tmp, counts, ended, last_fmt, hist>>

\* lines 39-45: self.data["videos"][video.video_id] = {...}
StoreEntry(i) ==
    /\ wpc[i] = "uv_store"
    /\ manifest' = update_video(manifest, video[i])
    /\ hist' = [hist EXCEPT ![i].upd = @ + 1]
    /\ wpc' = [wpc EXCEPT ![i] = "uv_done"]
    /\ UNCHANGED <<cfgVars, call, nops, pc, disk, files, skip_ids, items, video, futures, nsub,
                   results, vr, tmp, counts, ended, last_fmt>>

NextWriters ==
    \/ \E i \in ManifestIds : TestVideos(i)
    \/ \E i \in ManifestIds : ResetVideos(i)
    \/ \E i \in ManifestIds : StoreEntry(i)

SpecWriters == InitWriters /\ [][NextWriters]_vars

----------------------------------------------------------------------------
(* Sessions over a manifest file that parses as JSON but has another shape  *)
(* than the one Manifest.save writes: an array, an object without the key  *)
(* "videos", an object whose "videos" is null.                              *)

ShapeDisks ==
    { JsonFile(JArray(<<>>)),
      JsonFile(JObject(<<Member("playlist_url", JStr(PlaylistUrl))>>)),
      JsonFile(JObject(<<Member("playlist_url", JNull), Member("videos", JNull)>>)) }

InitShapes ==
    /\ pc = "start"
    /\ max_concurrency \in 1..MaxConc
    /\ naming_template = DefaultTemplate
    /\ numEntries \in 1..MaxItems
    /\ resume \in BOOLEAN
    /\ force = FALSE
    /\ index_range = NoRange
    /\ audio_only = FALSE
    /\ disk \in ShapeDisks
    /\ files = SessionFiles
    /\ manifest = EmptyData
    /\ skip_ids = {}
    /\ items = <<>>
    /\ video = <<>>
    /\ futures = <<>>
    /\ nsub = 0
    /\ results = <<>>
    /\ wpc = [i \in Ids |-> "none"]
    /\ vr = [i \in Ids |-> VideoResult("none", None, "", FALSE)]
    /\ tmp = [i \in Ids |-> 0]
    /\ counts = [k \in CountKeys |-> 0]
    /\ ended = FALSE
    /\ last_fmt = NoFormat
    /\ hist = [i \in Ids |-> [upd |-> 0, inc |-> 0]]
    /\ nops = 0
    /\ call = NoCall

\* no task raises with the default template: the step after a re-raised
\* exception (Unwind) is never reached
NextShapes ==
    \/ ExtractInfo
    \/ Plan
    \/ Submit
    \/ Collect
    \/ Finalize
    \/ \E i \in Ids : StartTask(i)
    \/ \E i \in Ids : ProcessVideo(i)
    \/ \E i \in Ids : Enrich(i)
    \/ \E i \in Ids : UpdateManifest(i)
    \/ \E i \in Ids : ReadCount(i)
    \/ \E i \in Ids : WriteCount(i)

SpecShapes == InitShapes /\ [][NextShapes]_vars

----------------------------------------------------------------------------
(* Calls of single functions.  The session and the Manifest client are at  *)
(* rest; `call` holds the arguments, then the outcome of the call.          *)

machineVars == <<cfgVars, nops, disk, files, manifest, skip_ids, items, video, futures, nsub,
                 results, wpc, vr, tmp, counts, ended, last_fmt, hist>>

AtRest ==
    /\ max_concurrency = 1
    /\ naming_template = DefaultTemplate
    /\ numEntries = 0
    /\ resume = FALSE
    /\ force = FALSE
    /\ index_range = NoRange
    /\ audio_only = FALSE
    /\ disk = NoFile
    /\ files = {}
    /\ manifest = EmptyData
    /\ skip_ids = {}
    /\ items = <<>>
    /\ video = <<>>
    /\ futures = <<>>
    /\ nsub = 0
    /\ results = <<>>
    /\ wpc = [i \in Ids |-> "none"]
    /\ vr = [i \in Ids |-> VideoResult("none", None, "", FALSE)]
    /\ tmp = [i \in Ids |-> 0]
    /\ counts = [k \in CountKeys |-> 0]
    /\ ended = FALSE
    /\ last_fmt = NoFormat
    /\ hist = [i \in Ids |-> [upd |-> 0, inc |-> 0]]
    /\ nops = 0

----------------------------------------------------------------------------
(* _process_video on its own, against every scripted behaviour of the      *)
(* Media Retrieval Service, under every configured AppConfig.retry_attempts *)

MaxRetryCfg == 3     \* largest config.retry_attempts

RetryErrors ==
    { Err(c, m) : c \in {"DownloadError", "Exception"}, m \in {"timed out", "404", "private"} }

RetryResponses ==
    { Ok(<<F720, F1080, FAudio>>), Ok(<<F720, FAudio>>), Ok(<<F1080>>), Ok(<<>>),
      Response(NoError, FALSE, <<>>, NoError) }
    \cup { Response(e, FALSE, <<>>, NoError) : e \in RetryErrors }
    \cup { Response(NoError, TRUE, <<F1080, FAudio>>, e) : e \in RetryErrors }

RetryScripts == [1..MaxAttempts -> RetryResponses]

InitRetry ==
    /\ pc = "r_start"
    /\ AtRest
    /\ \E script \in RetryScripts, audio \in BOOLEAN, cfg \in 0..MaxRetryCfg :
          call = [fn |-> "_process_video", script |-> script, audio |-> audio,
                  retry_attempts |-> cfg, ret |-> NoCall]

RunProcessVideo ==
    /\ pc = "r_start"
    /\ call' = [call EXCEPT !.ret = _process_video(call.script, call.audio)]
    /\ pc' = "r_done"
    /\ UNCHANGED machineVars

NextRetry == RunProcessVideo

SpecRetry == InitRetry /\ [][NextRetry]_vars

----------------------------------------------------------------------------
(* apply_filters on its own (the calls of tests/unit/test_filtering.py,    *)
(* over more inputs): a planned list whose indexes increase, title terms    *)
(* and a range spec                                                         *)

MaxTerms == 2        \* longest list of title terms

FilterTitles == { <<"A", "b">>, <<"b", "a", "T">> }
FilterTerms == { <<>>, <<" ">>, <<"a", "B">>, <<"B", "A">>, <<"t">> }
FilterSides == {SideEmpty, SideBad} \cup {SideInt(k) : k \in 0..(MaxItems + 1)}
FilterRanges == {NoRange, NoColon} \cup {RangeSpec(a, b) : a, b \in FilterSides}

\* the ids of S in increasing order
RECURSIVE Ascending(_)
Ascending(S) ==
    IF S = {} THEN <<>>
    ELSE LET m == CHOOSE m \in S : \A j \in S : m <= j
         IN  <<m>> \o Ascending(S \ {m})

InitFilter ==
    /\ pc = "f_start"
    /\ AtRest
    /\ \E S \in SUBSET (1..MaxItems), n \in 0..MaxTerms, range_spec \in FilterRanges :
          \E titles \in [S -> FilterTitles], filters \in [1..n -> FilterTerms] :
              call = [fn |-> "apply_filters", videos |-> Ascending(S),
                      vs |-> [i \in S |-> [NewVideoItem(i, FALSE) EXCEPT !.title = titles[i]]],
                      filters |-> filters, index_range |-> range_spec, ret |-> NoCall]

RunApplyFilters ==
    /\ pc = "f_start"
    /\ call' = [call EXCEPT !.ret = apply_filters(call.videos, call.vs, call.filters,
                                                  call.index_range)]
    /\ pc' = "f_done"
    /\ UNCHANGED machineVars

NextFilter == RunApplyFilters

SpecFilter == InitFilter /\ [][NextFilter]_vars

----------------------------------------------------------------------------
(* captions.py: CaptionsService.obtain, with fetch_manual and fetch_auto   *)
(* answering as the Transcript Service is scripted (the DummyCap of        *)
(* tests/unit/test_captions_service.py, over more answers)                 *)

CaptionTrack(id, lang, kind) == [video_id |-> id, language |-> lang, kind |-> kind]
NoTrack == CaptionTrack(0, "", "none")
CaptionLangs == {"en", "fr"}

\* mutant: the implicit auto fallback of lines 345-349 is missing
obtain_no_upgrade(want_manual, want_auto, manual, auto) ==
    LET manual_obtained == want_manual /\ manual # NoTrack
        t1 == IF manual_obtained THEN <<manual>> ELSE <<>>
        c1 == IF want_manual THEN <<"fetch_manual">> ELSE <<>>
    IN  IF want_auto /\ ~manual_obtained
        THEN [tracks |-> IF auto # NoTrack THEN Append(t1, auto) ELSE t1,
              calls |-> Append(c1, "fetch_auto")]
        ELSE [tracks |-> t1, calls |-> c1]

\* obtain (lines 329-357); manual and auto are what fetch_manual and
\* fetch_auto return when called: [tracks, calls (the fetches made, in order)]
obtain(want_manual, want_auto, manual, auto) ==
    LET manual_obtained == want_manual /\ manual # NoTrack
        t1 == IF manual_obtained THEN <<manual>> ELSE <<>>
        c1 == IF want_manual THEN <<"fetch_manual">> ELSE <<>>
        implicit == ~manual_obtained /\ want_manual /\ ~want_auto
        c2 == IF implicit THEN Append(c1, "fetch_auto") ELSE c1
    IN  IF implicit /\ auto # NoTrack
        THEN [tracks |-> Append(t1, auto), calls |-> c2]
        ELSE IF want_auto /\ ~manual_obtained
        THEN [tracks |-> IF auto # NoTrack THEN Append(t1, auto) ELSE t1,
              calls |-> Append(c2, "fetch_auto")]
        ELSE [tracks |-> t1, calls |-> c2]

InitCaptions ==
    /\ pc = "c_start"
    /\ AtRest
    /\ \E id \in 1..MaxItems, want_manual \in BOOLEAN, want_auto \in BOOLEAN :
          \E manual \in {NoTrack} \cup {CaptionTrack(id, l, "manual") : l \in CaptionLangs},
             auto \in {NoTrack} \cup {CaptionTrack(id, l, "auto") : l \in CaptionLangs} :
              call = [fn |-> "obtain", video_id |-> id, want_manual |-> want_manual,
                      want_auto |-> want_auto, manual |-> manual, auto |-> auto,
                      ret |-> NoCall]

RunObtain ==
    /\ pc = "c_start"
    /\ call' = [call EXCEPT !.ret = obtain(call.want_manual, call.want_auto, call.manual,
                                           call.auto)]
    /\ pc' = "c_done"
    /\ UNCHANGED machineVars

NextCaptions == RunObtain

SpecCaptions == InitCaptions /\ [][NextCaptions]_vars

----------------------------------------------------------------------------
(* naming.py on its own: sanitize_filename over raw names, expand_template *)
(* over templates built from literal text, recognized tokens and unknown   *)
(* tokens (the calls of tests/unit/test_naming.py, over more inputs)       *)

MaxRaw == 4          \* longest short raw name
MaxParts == 3        \* longest template, in parts

NamingChars == {"a", ".", " ", "/", ":"}
Repeat(c, n) == [k \in 1..n |-> c]
\* names around the length cap of line 29
LongNames ==
    { Repeat(".", MaxNameLen) \o <<"a">>, Repeat("a", MaxNameLen), Repeat("a", MaxNameLen + 1),
      <<"/">> \o Repeat("a", MaxNameLen) }
RawNames == UNION {[1..n -> NamingChars] : n \in 0..MaxRaw} \cup LongNames

TUnknownA == <<"u", "n", "k", "n", "o", "w", "n">>
TUnknownB == <<"n", "o", "p", "e">>
NamingParts ==
    { Lit(<<"-">>), Field(TIndex, <<"0", "3", "d">>), Field(TTitle, <<>>),
      Field(TTitle, <<"0", "3", "d">>), Field(TQuality, <<>>), Field(TUnknownA, <<>>),
      Field(TUnknownB, <<>>), Field(TUnknownA, <<"0", "3", "d">>), Field(<<>>, <<>>) }
NamingTemplates == UNION {[1..n -> NamingParts] : n \in 0..MaxParts}
NamingTitles == { EntryTitle(1), <<"a", "/", "b">>, <<".">> }
NamingVideos ==
    { [NewVideoItem(1, audio) EXCEPT !.title = t] : audio \in BOOLEAN, t \in NamingTitles }

InitNaming ==
    /\ pc = "n_start"
    /\ AtRest
    /\ \/ \E name \in RawNames :
             call = [fn |-> "sanitize_filename", name |-> name, template |-> <<>>,
                     video |-> NewVideoItem(1, FALSE), ret |-> NoCall]
       \/ \E template \in NamingTemplates, v \in NamingVideos :
             call = [fn |-> "expand_template", name |-> <<>>, template |-> template,
                     video |-> v, ret |-> NoCall]

RunSanitize ==
    /\ pc = "n_start"
    /\ call.fn = "sanitize_filename"
    /\ call' = [call EXCEPT !.ret = sanitize_filename(call.name)]
    /\ pc' = "n_done"
    /\ UNCHANGED machineVars

RunExpandTemplate ==
    /\ pc = "n_start"
    /\ call.fn = "expand_template"
    /\ call' = [call EXCEPT !.ret = expand_template(call.template, call.video)]
    /\ pc' = "n_done"
    /\ UNCHANGED machineVars

NextNaming ==
    \/ RunSanitize
    \/ RunExpandTemplate

SpecNaming == InitNaming /\ [][NextNaming]_vars

----------------------------------------------------------------------------
(* reporting.py: build_session_report called on a session at rest, at any  *)
(* reading of the clock.  Times are clock readings; NoTime is None.        *)

MaxClock == 3        \* last reading of the clock
MaxReports == 2      \* reports built from one session
MaxVideos == 3       \* longest session.videos of a reported session

SCHEMA_VERSION == "1.1.0"
NoTime == 0
isoformat(t) == <<"T">> \o Digits(t)

_video_summary(v) ==
    [videoId |-> v.video_id, title |-> v.title, status |-> v.status,
     quality |-> v.selected_quality, fallback |-> v.fallback_applied, retries |-> v.retries,
     sizeBytes |-> v.size_bytes]

\* mutant: the kept elements come out last first
RECURSIVE KeepFlagged_reversed(_)
KeepFlagged_reversed(xs) ==
    IF xs = <<>> THEN <<>>
    ELSE KeepFlagged_reversed(Tail(xs)) \o (IF Head(xs).keep THEN <<Head(xs).val>> ELSE <<>>)
\* the list comprehension [f(v) for v in vs if keep(v)] over records with a flag
RECURSIVE KeepFlagged(_)
KeepFlagged(xs) ==
    IF xs = <<>> THEN <<>>
    ELSE (IF Head(xs).keep THEN <<Head(xs).val>> ELSE <<>>) \o KeepFlagged(Tail(xs))

\* build_session_report(session) called when the clock reads now.  The Report
\* holds session.counts itself (the same dict object), noted counts_of.
build_session_report(session, now) ==
    LET ended_or_now == IF session.ended # NoTime THEN session.ended ELSE now
        vs == session.videos
        failures == KeepFlagged([k \in 1..Len(vs) |->
                        [keep |-> vs[k].status = "failed",
                         val |-> [videoId |-> vs[k].video_id,
                                  reason |-> IF vs[k].failure_reason # None
                                             THEN vs[k].failure_reason ELSE "unknown"]]])
        fallbacks == KeepFlagged([k \in 1..Len(vs) |->
                        [keep |-> vs[k].fallback_applied,
                         val |-> [videoId |-> vs[k].video_id, from |-> vs[k].preferred_quality,
                                  to |-> vs[k].selected_quality]]])
    IN  [schema_version |-> SCHEMA_VERSION, playlist_url |-> session.playlist_url,
         started |-> isoformat(session.started), ended |-> isoformat(ended_or_now),
         counts_of |-> "session", failures |-> failures, fallbacks |-> fallbacks,
         videos |-> [k \in 1..Len(vs) |-> _video_summary(vs[k])]]

\* what a reader of the Report finds in it, its counts being those of the session
ReportContent(report, session) ==
    [schema_version |-> report.schema_version, playlist_url |-> report.playlist_url,
     started |-> report.started, ended |-> report.ended, counts |-> session.counts,
     failures |-> report.failures, fallbacks |-> report.fallbacks, videos |-> report.videos]

\* the items of a reported session: a success, a success by fallback, two failures
ReportVideos(i) ==
    { [NewVideoItem(i, FALSE) EXCEPT !.status = "success", !.selected_quality = "1080p"],
      [NewVideoItem(i, FALSE) EXCEPT !.status = "success", !.selected_quality = "720p",
                                     !.fallback_applied = TRUE],
      [NewVideoItem(i, FALSE) EXCEPT !.status = "failed",
                                     !.failure_reason = "DownloadError: 404"],
      [NewVideoItem(i, FALSE) EXCEPT !.status = "failed"] }

SessionCounts(vs) ==
    [k \in CountKeys |->
        CASE k = "total" -> Len(vs)
          [] k = "success" -> Cardinality({j \in 1..Len(vs) : vs[j].status = "success"})
          [] k = "failed" -> Cardinality({j \in 1..Len(vs) : vs[j].status = "failed"})
          [] k = "skipped" -> 0
          [] OTHER -> Cardinality({j \in 1..Len(vs) : vs[j].fallback_applied})]

ReportSessions ==
    { [playlist_url |-> PlaylistUrl, started |-> 1, ended |-> e, counts |-> SessionCounts(vs),
       videos |-> vs] :
        e \in {NoTime, 1},
        vs \in UNION {{f \in [1..n -> UNION {ReportVideos(i) : i \in 1..n}] :
                          \A k \in 1..n : f[k].index = k} : n \in 0..MaxVideos} }

InitReport ==
    /\ pc = "b_ready"
    /\ AtRest
    /\ \E session \in ReportSessions :
          call = [fn |-> "build_session_report", session |-> session, clock |-> 1,
                  reports |-> <<>>]

\* time passes
Tick ==
    /\ pc = "b_ready"
    /\ call.clock < MaxClock
    /\ call' = [call EXCEPT !.clock = @ + 1]
    /\ UNCHANGED <<pc, machineVars>>

BuildReport ==
    /\ pc = "b_ready"
    /\ Len(call.reports) < MaxReports
    /\ call' = [call EXCEPT !.reports = Append(@, build_session_report(call.session,
                                                                       call.clock))]
    /\ UNCHANGED <<pc, machineVars>>

NextReport ==
    \/ Tick
    \/ BuildReport

SpecReport == InitReport /\ [][NextReport]_vars

----------------------------------------------------------------------------
(* A Report and the session it was built from: build_session_report on a   *)
(* session whose items are still being completed, the completion of an     *)
(* item being the assignments of _process_video_enriched to the item and   *)
(* to session.counts (downloader.py:233-264).  `seen` is what a reader     *)
(* finds in the Report when it has just been built.                        *)

InitSnapshot ==
    /\ pc = "s_ready"
    /\ AtRest
    /\ \E n \in 0..MaxVideos :
          call = [fn |-> "snapshot",
                  session |-> [playlist_url |-> PlaylistUrl, started |-> 1, ended |-> NoTime,
                               counts |-> [k \in CountKeys |-> 0],
                               videos |-> [i \in 1..n |-> NewVideoItem(i, FALSE)]],
                  clock |-> 1, report |-> NoCall, seen |-> NoCall]

BuildSnapshot ==
    /\ pc = "s_ready"
    /\ LET report == build_session_report(call.session, call.clock)
       IN  call' = [call EXCEPT !.report = report,
                                !.seen = ReportContent(report, call.session)]
    /\ pc' = "s_built"
    /\ UNCHANGED machineVars

\* a worker completes the pending item k: status, quality, flag and reason of
\* the item, then the increments of session.counts
CompleteItem(k) ==
    /\ pc \in {"s_ready", "s_built"}
    /\ k \in 1..Len(call.session.videos)
    /\ call.session.videos[k].status = "pending"
    /\ \E v \in ReportVideos(k) :
          call' = [call EXCEPT
                      !.session.videos[k] = v,
                      !.session.counts =
                          [c \in CountKeys |->
                              IF c = v.status \/ c = "total"
                                 \/ (c = "fallbacks" /\ v.fallback_applied)
                              THEN @[c] + 1 ELSE @[c]]]
    /\ UNCHANGED <<pc, machineVars>>

NextSnapshot ==
    \/ BuildSnapshot
    \/ \E k \in 1..MaxVideos : CompleteItem(k)

SpecSnapshot == InitSnapshot /\ [][NextSnapshot]_vars

----------------------------------------------------------------------------
(* The format selection of one attempt of _process_video whose            *)
(* extract_info and download both return (downloader.py:301-424), with    *)
(* the most-preferred quality as an input: --quality takes any string     *)
(* (cli.py:24) and becomes quality_order[0] (cli.py:93).                  *)

MaxFormats == 3      \* longest info["formats"]

QualityNames == {"1080p", "720p", "144p", "4320p"}
QualityFormats == {Fmt(h, TRUE, TRUE, 1000, 128, 10) : h \in {108, 144, 720, 1080, 2160}}
                      \cup {FAudio, Fmt(1080, TRUE, FALSE, 2000, 0, 80)}

InitQuality ==
    /\ pc = "q_ready"
    /\ AtRest
    /\ \E pref \in QualityNames, audio \in BOOLEAN,
          fs \in UNION {[1..n -> QualityFormats] : n \in 0..MaxFormats} :
          call = [fn |-> "select", preferred |-> pref, audio |-> audio, formats |-> fs,
                  ret |-> VideoResult("none", None, "", FALSE), handed |-> <<>>]

RunSelect ==
    /\ pc = "q_ready"
    /\ LET sel == select_format(call.formats, call.audio, call.preferred)
       IN  call' = [call EXCEPT
                      !.ret =
                          IF call.formats = <<>>
                          THEN VideoResult("failed", None, "No streams available", FALSE)
                          ELSE IF sel = NoFormat
                          THEN VideoResult("failed", None, "No suitable format found", FALSE)
                          ELSE VideoResult("success", _format_to_quality(sel, call.audio), "",
                                           FallbackApplied(sel, call.audio, call.preferred)),
                      !.handed =
                          IF call.formats = <<>> \/ sel = NoFormat THEN <<>>
                          ELSE format_selector(call.audio, call.preferred)]
    /\ pc' = "q_done"
    /\ UNCHANGED machineVars

NextQuality == RunSelect

SpecQuality == InitQuality /\ [][NextQuality]_vars

----------------------------------------------------------------------------
(* The claims *)

Planned == {items[k] : k \in 1..Len(items)}
Submitted == {i \in Ids : wpc[i] # "none"}
Completed == pc = "returned" /\ ended

\* C1: with max_concurrency = N >= 1, at most N items are being processed by
\* the pool (inside _process_video_enriched) at any time.
C1_AtMostNInFlight == Cardinality(InFlight) <= max_concurrency

\* the pool is full and a submitted item is waiting for a thread
C1_Witness ==
    /\ max_concurrency >= 2
    /\ Cardinality(InFlight) = max_concurrency
    /\ \E i \in Ids : wpc[i] = "queued"

\* C2: an error raised while one item is processed never keeps another
\* planned item from being processed to a terminal status, and never aborts
\* the session: when download_playlist returns, every planned item has been
\* processed and the session has been closed.
C2_ItemErrorIsolated ==
    (pc = "returned" /\ Planned # {}) =>
        /\ \A i \in Planned : wpc[i] \in Finished
        /\ ended

\* C3: once all K submitted items have completed, counts.total = K and
\* counts.success / counts.failed are the numbers of items with that status.
C3_NoLostIncrement ==
    Completed =>
        /\ counts["total"] = Len(items)
        /\ counts["success"] = Cardinality({i \in Planned : video[i].status = "success"})
        /\ counts["failed"] = Cardinality({i \in Planned : video[i].status = "failed"})

\* C4: every count of session.counts is non-decreasing over time and no item
\* is counted twice.
C4_CountsMonotone ==
    [][/\ \A k \in CountKeys : counts'[k] >= counts[k]
       /\ \A i \in Ids : hist'[i].inc <= 1]_vars

\* C5: after a batch has completed, total = success + failed + skipped.
C5_CountsConsistent ==
    Completed =>
        counts["total"] = counts["success"] + counts["failed"] + counts["skipped"]

\* C6: for every item submitted to the pool, once its task is over the
\* manifest entry update and the counts increment have each happened exactly
\* once, whether the item succeeded or failed.
C6_UpdatedExactlyOnce ==
    \A i \in Ids :
        wpc[i] \in Finished =>
            /\ video[i].status \in {"success", "failed"}
            /\ hist[i].upd = 1
            /\ hist[i].inc = 1

\* C7: in a resume run (resume, not force) an item whose id is in the
\* manifest's skip set is never planned and never submitted to the pool.
C7_SkippedNeverSubmitted ==
    (resume /\ ~force) =>
        \A i \in skip_ids : i \notin Planned /\ i \notin Submitted

\* a finished resume run that skipped an item and processed another
C7_Witness ==
    /\ resume /\ ~force /\ Completed
    /\ skip_ids # {}
    /\ \E i \in Ids : wpc[i] = "done"

\* C8: compute_skips returns exactly the ids of the entries whose status is
\* success and whose recorded filename exists in the output directory.
C8_SkipsExact ==
    pc = "m_skipped" =>
        /\ skip_ids \subseteq DOMAIN manifest.videos
        /\ \A i \in DOMAIN manifest.videos :
              LET e == manifest.videos[i]
              IN  /\ (e.status = "success" /\ e.filename \in files) => i \in skip_ids
                  /\ (e.status = "success" /\ e.filename \notin files) => i \notin skip_ids
                  /\ e.status # "success" => i \notin skip_ids

\* one call that skips a success entry whose file is there, and does not skip
\* a success entry whose file is missing, one without filename and a failed one
C8_Witness ==
    /\ pc = "m_skipped"
    /\ skip_ids # {}
    /\ \E i \in DOMAIN manifest.videos \ skip_ids :
          /\ manifest.videos[i].status = "success"
          /\ manifest.videos[i].filename \in ManifestNames \ files
    /\ \E i \in DOMAIN manifest.videos \ skip_ids :
          /\ manifest.videos[i].status = "success"
          /\ manifest.videos[i].filename = NoneText
    /\ \E i \in DOMAIN manifest.videos : manifest.videos[i].status = "failed"

\* C9: after any update_video calls followed by save, Manifest.load on the
\* same directory yields the same entries and the same playlist identity.
C9_RoundTrip ==
    pc = "m_saved" =>
        /\ Manifest_load(disk).videos = manifest.videos
        /\ Manifest_load(disk).playlist_url = manifest.playlist_url

\* a save after two update_video calls, with an entry without filename and an
\* entry with the fallback flag
C9_Witness ==
    /\ pc = "m_saved"
    /\ nops = 3
    /\ manifest.playlist_url = None
    /\ \E i, j \in DOMAIN manifest.videos :
          /\ i # j
          /\ manifest.videos[i].filename = NoneText /\ manifest.videos[i].status = "pending"
          /\ manifest.videos[j].fallback /\ manifest.videos[j].retries = 1
          /\ manifest.videos[j].filename = PriorName(1)

\* the range spec is one parse_index_range accepts
ValidRange ==
    \/ ~index_range.given
    \/ /\ index_range.colon
       /\ index_range.start.kind # "bad" /\ index_range.end.kind # "bad"
       /\ ~(index_range.start.kind = "int" /\ index_range.end.kind = "int"
            /\ index_range.end.n < index_range.start.n)

\* the entries the range spec lets through, in playlist order
EntriesInRange ==
    SelectSeq([i \in 1..numEntries |-> i],
              LAMBDA i : /\ index_range.start.kind = "int" => i >= index_range.start.n
                         /\ index_range.end.kind = "int" => i <= index_range.end.n)

----------------------------------------------------------------------------
(* Claims on _process_video (SpecRetry) *)

\* the kinds of error the Retry Policy is to treat as permanent
PermanentKinds == {"400", "403", "404", "410", "private", "deleted"}

\* the error raised by attempt k of the call (NoError: the attempt raised nothing)
AttemptError(k) ==
    LET r == call.script[k]
    IN  IF r.extract # NoError THEN r.extract
        ELSE IF r.has_info /\ r.formats # <<>> /\ select_format(r.formats, call.audio, preferred) # NoFormat
             THEN r.download
        ELSE NoError

AllTransient ==
    \A k \in 1..MaxAttempts :
        AttemptError(k) # NoError /\ AttemptError(k).msg \notin PermanentKinds

\* C11: when an attempt raises an error of a permanent kind (not-found,
\* forbidden, gone, private, deleted), it is the last attempt: no backoff wait
\* follows it and the item is failed; raised by the first attempt, the attempt
\* count stays at 1 with no wait at all.
C11_PermanentStopsRetries ==
    pc = "r_done" =>
        \A k \in 1..call.ret.attempts :
            AttemptError(k).msg \in PermanentKinds =>
                /\ call.ret.attempts = k
                /\ Len(call.ret.sleeps) = k - 1
                /\ call.ret.vr.status = "failed"

\* C12: an item whose every attempt raises a transient error is attempted
\* exactly the configured number of times (retry_attempts re-attempts after the
\* first attempt; 3 attempts by default) and is then failed with the
\* description of the last error.
C12_TransientUsesConfiguredCap ==
    (pc = "r_done" /\ AllTransient) =>
        /\ call.ret.attempts = call.retry_attempts + 1
        /\ call.ret.vr.status = "failed"
        /\ call.ret.vr.failure_reason = ErrText(AttemptError(call.ret.attempts))

\* C13: for an audio-only request every selector handed to the Media
\* Retrieval Service is the single step best-audio, with no video or generic
\* best-of-anything step after it.
C13_AudioSingleBestAudio ==
    (pc = "r_done" /\ call.audio) =>
        \A k \in 1..Len(call.ret.handed) : call.ret.handed[k] = <<BestAudio>>

----------------------------------------------------------------------------
(* Claims on apply_filters (SpecFilter) and on the range of a session *)

\* the range spec of the call is start:end with integer or empty sides
WellFormed(spec) ==
    spec.given /\ spec.colon /\ spec.start.kind # "bad" /\ spec.end.kind # "bad"

EndBeforeStart(spec) ==
    WellFormed(spec) /\ spec.start.kind = "int" /\ spec.end.kind = "int"
        /\ spec.start.n > spec.end.n

InRange(spec, index) ==
    /\ spec.start.kind = "int" => spec.start.n <= index
    /\ spec.end.kind = "int" => index <= spec.end.n

Blank(term) == \A k \in 1..Len(term) : term[k] \in Whitespace

\* the term occurs in the title, letter case ignored
Occurs(term, title) ==
    \E k \in 0..(Len(title) - Len(term)) :
        \A j \in 1..Len(term) : Lower(title[k + j]) = Lower(term[j])

NonBlankTerms == {call.filters[k] : k \in {j \in 1..Len(call.filters) : ~Blank(call.filters[j])}}

TitlePasses(i) ==
    NonBlankTerms = {} \/ \E t \in NonBlankTerms : Occurs(t, call.vs[i].title)

Kept == {call.ret.out[k] : k \in 1..Len(call.ret.out)}

\* out is videos with some elements left out, the others in their order
IsSubsequence(out, videos) ==
    \E pos \in [1..Len(out) -> 1..Len(videos)] :
        /\ \A k \in 1..Len(out) : videos[pos[k]] = out[k]
        /\ \A k \in 1..(Len(out) - 1) : pos[k] < pos[k + 1]

\* C14: with a range spec start:end (either side optional) apply_filters keeps
\* exactly the items with start <= index <= end, both ends included, among the
\* items the title terms let through; with both bounds present and
\* start > end it raises IndexRangeError and returns no list.
C14_RangeInclusive ==
    (pc = "f_done" /\ WellFormed(call.index_range)) =>
        IF EndBeforeStart(call.index_range)
        THEN call.ret.raised /\ call.ret.exc = "IndexRangeError" /\ call.ret.out = <<>>
        ELSE /\ ~call.ret.raised
             /\ Kept = {i \in DOMAIN call.vs :
                           InRange(call.index_range, call.vs[i].index) /\ TitlePasses(i)}

\* the range 2:2 over three items without title terms: item 2 alone is kept
C14_Witness ==
    /\ pc = "f_done"
    /\ call.index_range = RangeSpec(SideInt(2), SideInt(2))
    /\ call.filters = <<>>
    /\ call.videos = <<1, 2, 3>>
    /\ call.ret.out = <<2>>

\* C15: with title terms apply_filters keeps exactly the items whose title
\* contains at least one non-blank term, letter case ignored; blank terms are
\* ignored; the result is a subsequence of the input in its order.
C15_TitleTerms ==
    (pc = "f_done" /\ ~call.ret.raised) =>
        /\ IsSubsequence(call.ret.out, call.videos)
        /\ ~call.index_range.given => Kept = {i \in DOMAIN call.vs : TitlePasses(i)}

\* terms " " and "BA" over the titles "Ab", "baT", "Ab": the blank term is
\* ignored and item 2 alone matches, in another letter case
C15_Witness ==
    /\ pc = "f_done"
    /\ ~call.index_range.given
    /\ call.filters = << <<" ">>, <<"B", "A">> >>
    /\ call.videos = <<1, 2, 3>>
    /\ call.vs[1].title = <<"A", "b">> /\ call.vs[2].title = <<"b", "a", "T">>
    /\ call.vs[3].title = <<"A", "b">>
    /\ call.ret.out = <<2>>

\* C16: when the index range of download_playlist is malformed or has its end
\* before its start, no step of the session submits an item, starts a task,
\* writes a media file or changes the manifest file, and the session returns
\* from planning.
C16_BadRangeAbortsBeforeScheduling ==
    [][~ValidRange =>
          /\ UNCHANGED <<disk, files, futures, nsub, wpc, vr, items>>
          /\ pc = "plan" => pc' = "returned"]_vars

\* a session over a saved manifest and two entries or more that loaded the
\* manifest, met the bad range and returned
C16_Witness ==
    /\ ~ValidRange
    /\ pc = "returned"
    /\ manifest.playlist_url = PlaylistUrl
    /\ numEntries >= 2
    /\ disk = Manifest_save(PriorData)
    /\ \A i \in Ids : wpc[i] = "none"

----------------------------------------------------------------------------
(* Claims on CaptionsService.obtain (SpecCaptions) *)

----------------------------------------------------------------------------
(* Claims on naming.py (SpecNaming) *)

\* the replacement fields of the template whose token is not a recognized one
UnknownFields == {k \in 1..Len(call.template) :
                    /\ call.template[k].kind = "field"
                    /\ call.template[k].name \notin ALLOWED_TOKENS}

\* C18: for every template expand_template does not raise, and no unknown
\* token of the template, with or without a format specifier, is left in the
\* rendered filename.
C18_UnknownTokensRemoved ==
    (pc = "n_done" /\ call.fn = "expand_template") =>
        /\ ~call.ret.raised
        /\ \A k \in UnknownFields :
              ~Contains(call.ret.name, <<"{">> \o call.template[k].name)

\* C19: the result of sanitize_filename holds no reserved character, is at
\* most 255 characters long, and is neither empty nor made only of dots.
C19_SanitizedNameSafe ==
    (pc = "n_done" /\ call.fn = "sanitize_filename") =>
        /\ \A k \in 1..Len(call.ret) : call.ret[k] \notin INVALID_CHARS
        /\ Len(call.ret) <= MaxNameLen
        /\ call.ret # <<>>
        /\ \E k \in 1..Len(call.ret) : call.ret[k] # "."

----------------------------------------------------------------------------
(* Claims on build_session_report (SpecReport) *)

\* C20: two calls of build_session_report on a session that is not changed
\* in between yield the same output, also for a session whose end timestamp
\* is not set.
C20_ReportPure ==
    call.fn = "build_session_report" =>
        \A j, k \in 1..Len(call.reports) :
            ReportContent(call.reports[j], call.session)
                = ReportContent(call.reports[k], call.session)

\* the positions of session.videos holding a failed item / an item with the
\* fallback flag, in increasing order
FailedAt == Ascending({k \in 1..Len(call.session.videos) :
                          call.session.videos[k].status = "failed"})
FallbackAt == Ascending({k \in 1..Len(call.session.videos) :
                            call.session.videos[k].fallback_applied})

\* C21: the failure list of a report holds exactly the session items with
\* status failed (identity, and the item's reason when it has one), the
\* fallback list exactly the items with fallback_applied (identity, preferred
\* and selected quality), each in the order of session.videos.
C21_ListsFiltered ==
    call.fn = "build_session_report" =>
        \A r \in 1..Len(call.reports) :
            LET rep == call.reports[r]
                vs == call.session.videos
            IN  /\ Len(rep.failures) = Len(FailedAt)
                /\ \A j \in 1..Len(FailedAt) :
                      /\ rep.failures[j].videoId = vs[FailedAt[j]].video_id
                      /\ vs[FailedAt[j]].failure_reason # None =>
                            rep.failures[j].reason = vs[FailedAt[j]].failure_reason
                /\ Len(rep.fallbacks) = Len(FallbackAt)
                /\ \A j \in 1..Len(FallbackAt) :
                      /\ rep.fallbacks[j].videoId = vs[FallbackAt[j]].video_id
                      /\ rep.fallbacks[j].from = vs[FallbackAt[j]].preferred_quality
                      /\ rep.fallbacks[j].to = vs[FallbackAt[j]].selected_quality

\* a report of a session whose items are a failure, a success by fallback
\* and another failure
C21_Witness ==
    /\ call.fn = "build_session_report"
    /\ Len(call.reports) >= 1
    /\ Len(call.session.videos) = 3
    /\ FailedAt = <<1, 3>> /\ FallbackAt = <<2>>
    /\ Len(call.reports[1].failures) = 2
    /\ call.reports[1].failures[2].videoId = 3
    /\ call.reports[1].fallbacks = <<[videoId |-> 2, from |-> "1080p", to |-> "720p"]>>

----------------------------------------------------------------------------
(* Claims on a Report and its session (SpecSnapshot) *)

\* C22: once build_session_report has returned, what a reader finds in the
\* Report stays what it was when the Report was built, whatever is done to
\* the session afterwards (count increments, item status changes).
C22_ReportSnapshot ==
    pc = "s_built" => ReportContent(call.report, call.session) = call.seen

----------------------------------------------------------------------------
(* Claims on the end of a session (Spec) *)

\* C23: the end timestamp of the session is never set while an item is queued
\* or in flight, and when download_playlist has returned (normal completion,
\* source without entries, fatal error) it is set.
C23_ClosedOnEveryReturn ==
    /\ ended => \A i \in Ids : wpc[i] \notin Running \cup {"queued"}
    /\ pc = "returned" => ended

\* a task raised and the exception left download_playlist through its except clause
Aborted == pc = "returned" /\ \E i \in Ids : wpc[i] = "raised"

\* C24: when a session aborted by a fatal error returns, the manifest file
\* holds, for every item whose task had completed, the entry of that item's
\* outcome.
C24_CompletedPersisted ==
    Aborted =>
        \A i \in Ids :
            wpc[i] = "done" =>
                /\ i \in DOMAIN Manifest_load(disk).videos
                /\ Manifest_load(disk).videos[i] = ManifestEntryOf(video[i])

----------------------------------------------------------------------------
(* Claims on the manifest file (SpecSave) *)

\* C25: at every point in time from the start of a Manifest.save on, also
\* when the save is interrupted, the manifest file holds either the complete
\* content it had before the save or the complete new content.
C25_SaveAtomic ==
    call.fn = "save" => disk \in {call.before, call.text}

----------------------------------------------------------------------------
(* Claims on a blocked worker (SpecBlocked) *)

\* C26: however long the worker of one item stays blocked in its service
\* call, every other planned item, submitted or not yet submitted, eventually
\* reaches a terminal status.
C26_BlockedWorkerBlocksNoOther ==
    (pc = "submit") ~> (\A i \in Planned : i # call.item => wpc[i] \in Finished)

\* f.result() has re-raised the exception of a task: the submit loop is left
Stopped == pc = "unwind" \/ Aborted

\* C27: once an error has stopped the submission, no further item is
\* submitted; when download_playlist then returns, every submitted item has
\* run to the end of its task with status success or failed; and no manifest
\* entry written by a worker carries the status pending.
C27_StoppedSessionDrains ==
    [][/\ Stopped => nsub' = nsub /\ futures' = futures
       /\ Aborted' => \A i \in Submitted' :
                          wpc'[i] \in Finished /\ video'[i].status \in {"success", "failed"}
       /\ \A i \in Ids :
             hist'[i].upd > 0 => manifest'.videos[i].status \in {"success", "failed"}]_vars

\* a session of three items and one pool thread: the task of item 1 raised,
\* item 2, already submitted, still ran and failed, item 3 was never submitted
C27_Witness ==
    /\ Aborted
    /\ Len(items) = 3 /\ nsub = 2
    /\ wpc[1] = "raised" /\ wpc[2] = "done" /\ wpc[3] = "none"
    /\ video[2].status = "failed"
    /\ manifest.videos[2].status = "failed"

----------------------------------------------------------------------------
(* Claims on the state shared by the workers (Spec) *)

\* the filesize of the format that _process_video selected for an item of
\* the recorded quality (the formats of a session differ in quality)
OwnSize(q) ==
    CASE q = "1080p" -> F1080.filesize
      [] q = "720p" -> F720.filesize
      [] OTHER -> FAudio.filesize

\* C28: the size recorded on a successful item is the size of the format
\* selected for that same item, under every interleaving of the workers.
C28_SizeFromOwnFormat ==
    \A i \in DOMAIN video :
        video[i].status = "success" => video[i].size_bytes = OwnSize(video[i].selected_quality)

\* C29: once concurrent update_video calls for distinct items have all
\* returned, the manifest holds for each of the items the entry of that
\* item's outcome, whatever the manifest loaded and however the calls
\* interleaved.
C29_NoEntryLost ==
    (call.fn = "update_video" /\ \A i \in ManifestIds : wpc[i] = "uv_done") =>
        \A i \in ManifestIds :
            /\ i \in DOMAIN manifest.videos
            /\ manifest.videos[i] = ManifestEntryOf(video[i])

\* the resolution a quality name stands for
Resolution(q) ==
    CASE q = "144p" -> 144 [] q = "240p" -> 240 [] q = "360p" -> 360 [] q = "480p" -> 480
      [] q = "720p" -> 720 [] q = "1080p" -> 1080 [] q = "1440p" -> 1440
      [] q = "2160p" -> 2160 [] q = "4320p" -> 4320

\* C30: a successful non-audio item is flagged as a fallback exactly when its
\* recorded selected quality is lower than the most-preferred quality, and an
\* audio-only item is never flagged.
C30_FallbackIffLower ==
    (call.fn = "select" /\ pc = "q_done" /\ call.ret.status = "success") =>
        IF call.audio THEN ~call.ret.fallback_applied
        ELSE call.ret.fallback_applied <=>
                 Resolution(call.ret.quality) < Resolution(call.preferred)

\* C31: the futures submitted and not yet collected are never more than
\* max(1, 2 * max_concurrency), and the first item of a batch is submitted only
\* when every future of the batch before it has been collected.
C31_BatchedSubmission ==
    [][/\ Len(futures') <= batch_size
       /\ (nsub' # nsub /\ nsub % batch_size = 0) => futures = <<>>]_vars
C31_Witness == batch_size = 2 /\ nsub = 3 /\ Len(futures) = 1 /\ Len(results) = 2

\* C32: the result list is in planned order: results[k] is the outcome of the
\* k-th planned item whatever the order in which the workers complete, and
\* on normal completion there is one result per planned item.
C32_ResultsInPlannedOrder ==
    /\ Len(results) <= Len(items)
    /\ \A k \in 1..Len(results) :
          /\ results[k].id = items[k]
          /\ results[k].vr = vr[items[k]]
          /\ results[k].vr.status \in {"success", "failed"}
    /\ (pc = "returned" /\ ended) => Len(results) = Len(items)
\* the third item has completed before the second, the first is collected
C32_Witness ==
    /\ Len(results) = 1 /\ Len(items) = 3
    /\ wpc[items[3]] = "done" /\ wpc[items[2]] \in Running

\* C33: _process_video runs at most 3 attempts for an item and returns a
\* result with status success or failed, and download_playlist eventually
\* returns.
C33_ProcessingTerminates ==
    /\ [](\A i \in Ids : wpc[i] \in (Running \ {"process"}) \cup Finished =>
             /\ call.att[i] \in 1..MaxAttempts
             /\ vr[i].status \in {"success", "failed"})
    /\ <>(pc = "returned")
\* a session of three items has returned normally, one item having taken
\* three attempts
C33_Witness ==
    /\ call.fn = "attempts" /\ Completed /\ Len(results) = 3
    /\ \E i \in Ids : call.att[i] = MaxAttempts

C35_ResumeSkipsAll ==
    (Completed /\ Planned # {} /\ \A i \in Planned : video[i].status = "success") =>
        /\ \A i \in Planned :
              Manifest_load(disk).videos[i].filename = DownloadName(i, audio_only)
        /\ Planned \subseteq compute_skips(Manifest_load(disk), files).skips

\* the template of the call with its unknown tokens deleted
KnownTemplate ==
    SelectSeq(call.template,
              LAMBDA p : ~(p.kind = "field" /\ p.name # <<>> /\ p.name \notin ALLOWED_TOKENS))

\* C36: for a template holding an unknown token next to recognized tokens,
\* expand_template returns the rendering of the same template with the
\* unknown tokens deleted.
C36_RecognizedStillSubstituted ==
    (/\ pc = "n_done" /\ call.fn = "expand_template"
     /\ KnownTemplate # call.template
     /\ \E k \in 1..Len(call.template) :
           call.template[k].kind = "field" /\ call.template[k].name \in ALLOWED_TOKENS
     /\ ~expand_template(KnownTemplate, call.video).raised) =>
        /\ ~call.ret.raised
        /\ call.ret.name = expand_template(KnownTemplate, call.video).name

\* C37: the retry count recorded on an item and in its manifest entry is the
\* number of attempts made for the item after the first one.
C37_RetriesRecorded ==
    call.fn = "attempts" =>
        \A i \in Planned :
            hist[i].upd > 0 =>
                /\ video[i].retries = call.att[i] - 1
                /\ manifest.videos[i].retries = call.att[i] - 1

\* C38: a session that has loaded a manifest file of another shape is not
\* aborted: when download_playlist returns, every entry of the playlist has
\* been processed and the saved manifest holds the outcome of each.
C38_MalformedManifestTolerated ==
    (pc = "returned" /\ manifest # EmptyData) =>
        /\ ended
        /\ Len(results) = numEntries
        /\ \A i \in 1..numEntries :
              /\ i \in DOMAIN Manifest_load(disk).videos
              /\ Manifest_load(disk).videos[i] = ManifestEntryOf(video[i])

\* C39: for a successful non-audio item, the format the Media Retrieval
\* Service retrieves for the selector handed to it has the height of the
\* format selected in-process, so that the recorded quality and fallback flag
\* are those of the retrieved format.
C39_SelectionMatchesChain ==
    (call.fn = "select" /\ pc = "q_done" /\ call.ret.status = "success" /\ ~call.audio) =>
        LET got == Retrieve(call.handed, call.formats)
        IN  /\ got.height = select_format(call.formats, call.audio, call.preferred).height
            /\ call.ret.quality = _format_to_quality(got, call.audio)
            /\ call.ret.fallback_applied = FallbackApplied(got, call.audio, call.preferred)

====
